---------------------------- MODULE Spec2Model ----------------------------
(***************************************************************************)
(* Producer/consumer programs of src/prod_cons (q1_1.c, q1_2.c): a bounded *)
(* circular buffer guarded by one pthread mutex and two POSIX semaphores,  *)
(* with the shutdown protocol driven by active_producers.                  *)
(*                                                                         *)
(* Every thread is a small state machine over its program counter; one     *)
(* action is one synchronisation call or one critical-section body of the  *)
(* C source.  Purely thread-local statements (loop tests, rand(), printf,  *)
(* sleep, free) are folded into the neighbouring action.                   *)
(***************************************************************************)
EXTENDS Integers, Sequences, FiniteSets, TLC

(***************************************************************************)
(* Bounds of the explored configurations.  In the C sources BUFFER_SIZE,   *)
(* NUM_PRODUCERS, NUM_CONSUMERS are #defines and num_sales is drawn with   *)
(* rand(); here they are chosen in Init from these ranges.                 *)
(***************************************************************************)
MaxBufferSize == 2
MaxThreads == 4
MaxItems == 2
MaxFanout == 3

\* sale_value = (rand() % 100000) / 100.0 + 1.0: the amount of producer p's
\* i-th sale (i = 1, 2, ...).  No statement of the programs branches on an
\* amount, so one stream of amounts stands for all of them: 10, 20, 30, ...
\* for every producer (amounts repeat across producers, as rand() may).
rand_sale_value(p, i) == 10 * i

VARIABLES
    program,           \* which program runs: "q1_1", "q1_2", or a build of prod-cons.c
    BUFFER_SIZE,       \* #define BUFFER_SIZE
    NUM_PRODUCERS,     \* #define NUM_PRODUCERS
    NUM_CONSUMERS,     \* #define NUM_CONSUMERS
    num_sales,         \* producer_args.num_sales, per producer
    buffer,            \* double buffer[BUFFER_SIZE]
    count,             \* int count
    in_idx,            \* int in_idx
    out_idx,           \* int out_idx
    mutex,             \* pthread_mutex_t mutex: the owner, or NoThread
    empty_slots,       \* sem_t empty_slots (its value)
    full_slots,        \* sem_t full_slots (its value)
    active_producers,  \* int active_producers
    cond_waiters,      \* q1_1: consumers blocked in pthread_cond_wait(&buffer_full_cond)
    ppc,               \* producer program counters
    p_i,               \* producer: loop variable i of the production loop
    p_k,               \* producer (q1_2): loop variable i of the shutdown posts
    cpc,               \* consumer program counters
    sales_processed,   \* consumer (q1_2): int sales_processed
    items_consumed,    \* consumer (q1_1): int items_consumed of the current batch
    c_k,               \* consumer (q1_1): loop variable i of the empty_slots posts
    mpc,               \* main: program counter
    m_k,               \* main: loop variable i of the loop it is in
    \* ---- history (observation only; never read by a guard) ----
    slot_tag,          \* identity <<producer, item number>> last written in each slot
    unread,            \* slots holding an item inserted and not yet removed
    slot_seq,          \* rank, among all insertions, of the item last written in each slot
    n_put,             \* number of insertion critical sections executed
    n_take,            \* number of removal critical sections executed
    put_count,         \* per item identity: how many times it has been inserted
    take_count,        \* per item identity: how many times it has been removed
    last_take,         \* what the most recent removal read: consumer, tag, seq, value, fresh
    shutdown_posts,    \* per producer: sem_post(&full_slots) done in its final section
    reposts,           \* per consumer: sem_post(&full_slots) done on the exit branch
    dec_result,        \* per producer: active_producers right after its decrement (-1: not yet)
    last_batch,        \* q1_1: size of the manager's latest batch and
                       \*       active_producers when it was taken
    batch_total,       \* q1_1: sum of items_consumed over every batch taken
    \* ---- src/leibniz (q2_1.c, q2_2.c, calc-leibniz.c) ----
    SIZE,              \* #define SIZE
    NUM_THREADS,       \* #define NUM_THREADS
    result,            \* the global result
    tpc,               \* worker program counters
    first_therm,       \* worker: the argument read from *args (calc-leibniz.c: first)
    num_terms,         \* worker (q2): const int num_terms
    t_k,               \* worker: loop variable k (calc-leibniz.c: i)
    signal,            \* worker (q2): double signal, +1 or -1
    pi_approximation,  \* worker: the accumulator (calc-leibniz.c: acc)
    sum,               \* worker (q2): the value returned by partialFormula
    reg,               \* worker: result as loaded by `result += ...`
    denominator,       \* worker (q2): value of the int expression 2 * k + 1 last evaluated
    \* ---- history ----
    evaluated,         \* per index: how many times a worker has evaluated or added it
    int_overflow       \* an int expression has left the signed 32-bit range

vars == <<program, BUFFER_SIZE, NUM_PRODUCERS, NUM_CONSUMERS, num_sales,
          buffer, count, in_idx, out_idx, mutex, empty_slots, full_slots,
          active_producers, cond_waiters, ppc, p_i, p_k, cpc, sales_processed,
          items_consumed, c_k, mpc, m_k, slot_tag, unread, slot_seq, n_put,
          n_take, put_count, take_count, last_take, shutdown_posts, reposts,
          dec_result, last_batch, batch_total, SIZE, NUM_THREADS, result, tpc,
          first_therm, num_terms, t_k, signal, pi_approximation, sum, reg,
          denominator, evaluated, int_overflow>>

cfgVars == <<program, BUFFER_SIZE, NUM_PRODUCERS, NUM_CONSUMERS, num_sales>>
bufVars == <<buffer, count, in_idx, out_idx>>
leibVars == <<SIZE, NUM_THREADS, result, tpc, first_therm, num_terms, t_k,
              signal, pi_approximation, sum, reg, denominator, evaluated,
              int_overflow>>
histVars == <<slot_tag, unread, slot_seq, n_put, n_take, put_count, take_count,
              last_take, shutdown_posts, reposts, dec_result, last_batch,
              batch_total>>

Producers == 1..NUM_PRODUCERS
Consumers == 1..NUM_CONSUMERS

NoThread == <<"none", 0>>
ProducerThread(p) == <<"producer", p>>
ConsumerThread(c) == <<"consumer", c>>
NoTag == <<0, 0>>
NoTake == [consumer |-> 0, tag |-> NoTag, seq |-> 0, value |-> 0, fresh |-> TRUE]

\* Identities of the items the producers will insert: <<producer, item number>>.
AllTags == UNION {{<<p, i>> : i \in 1..num_sales[p]} : p \in 1..NUM_PRODUCERS}

RECURSIVE SumTo(_, _)
SumTo(f, n) == IF n = 0 THEN 0 ELSE f[n] + SumTo(f, n - 1)

(***************************************************************************)
(* Primitives                                                              *)
(***************************************************************************)

\* sem_wait(s) returns only when the value is positive, and decrements it.
SemCanWait_NoBlock(value) == TRUE
SemCanWait(value) == value > 0

\* in_idx = (in_idx + 1) % BUFFER_SIZE
NextIn_Stuck(idx, size) == idx
NextIn(idx, size) == (idx + 1) % size

\* out_idx = (out_idx + 1) % BUFFER_SIZE
NextOut_Stuck(idx, size) == idx
NextOut(idx, size) == (idx + 1) % size

\* active_producers--
Decremented_Forgotten(ap) == ap
Decremented_Twice(ap) == ap - 2
Decremented(ap) == ap - 1

\* q1_2 consumer: if (active_producers == 0 && count == 0)
ShouldExit_IgnoreCount(ap, cnt) == ap = 0
ShouldExit_Never(ap, cnt) == FALSE
ShouldExit_Always(ap, cnt) == TRUE
ShouldExit(ap, cnt) == ap = 0 /\ cnt = 0

\* q1_2 producer: for (int i = 0; i < NUM_CONSUMERS; i++) sem_post(&full_slots);
ShutdownFanout_One(nc) == 1
ShutdownFanout(nc) == nc

\* Where the production loop `for (i = 0; i < sales_to_produce; i++)` goes next.
LoopHead_OneMore(i, n) == IF i <= n THEN "sem_wait" ELSE "fin_lock"
LoopHead(i, n) == IF i < n THEN "sem_wait" ELSE "fin_lock"

(***************************************************************************)
(* Initial state: main() has initialised the mutex and the semaphores and  *)
(* created every thread; no thread has run yet.  InitState is that state   *)
(* for a given configuration; InitGlobals is its part made of the globals, *)
(* the initialised semaphores and each thread's locals.                    *)
(***************************************************************************)
\* The variables of src/leibniz, which these programs do not have.
NoLeibniz ==
    /\ SIZE = 0
    /\ NUM_THREADS = 0
    /\ result = 0
    /\ tpc = << >>
    /\ first_therm = << >>
    /\ num_terms = << >>
    /\ t_k = << >>
    /\ signal = << >>
    /\ pi_approximation = << >>
    /\ sum = << >>
    /\ reg = << >>
    /\ denominator = << >>
    /\ evaluated = << >>
    /\ int_overflow = FALSE

InitGlobals ==
    /\ buffer = [s \in 0..(BUFFER_SIZE - 1) |-> 0]
    /\ count = 0
    /\ in_idx = 0
    /\ out_idx = 0
    /\ mutex = NoThread
    /\ empty_slots = BUFFER_SIZE
    /\ full_slots = 0
    /\ active_producers = NUM_PRODUCERS
    /\ cond_waiters = {}
    /\ p_i = [p \in 1..NUM_PRODUCERS |-> 0]
    /\ p_k = [p \in 1..NUM_PRODUCERS |-> 0]
    /\ sales_processed = [c \in 1..NUM_CONSUMERS |-> 0]
    /\ items_consumed = [c \in 1..NUM_CONSUMERS |-> 0]
    /\ c_k = [c \in 1..NUM_CONSUMERS |-> 0]
    /\ m_k = 0
    /\ slot_tag = [s \in 0..(BUFFER_SIZE - 1) |-> NoTag]
    /\ unread = {}
    /\ slot_seq = [s \in 0..(BUFFER_SIZE - 1) |-> 0]
    /\ n_put = 0
    /\ n_take = 0
    /\ put_count = [t \in AllTags \cup {NoTag} |-> 0]
    /\ take_count = [t \in AllTags \cup {NoTag} |-> 0]
    /\ last_take = NoTake
    /\ shutdown_posts = [p \in 1..NUM_PRODUCERS |-> 0]
    /\ reposts = [c \in 1..NUM_CONSUMERS |-> 0]
    /\ dec_result = [p \in 1..NUM_PRODUCERS |-> -1]
    /\ last_batch = [size |-> 0, active |-> 0]
    /\ batch_total = 0
    /\ NoLeibniz

\* pthread_create of every producer and consumer is done: each producer is at
\* the head of its production loop and main is about to join the producers.
InitState ==
    /\ InitGlobals
    /\ ppc = [p \in 1..NUM_PRODUCERS |-> LoopHead(0, num_sales[p])]
    /\ mpc = "join_producers"

\* The configurations explored: every BUFFER_SIZE, thread counts and sale
\* counts within the bounds.
InitShared ==
    /\ BUFFER_SIZE \in 1..MaxBufferSize
    /\ NUM_PRODUCERS \in 1..(MaxThreads - NUM_CONSUMERS)
    /\ num_sales \in [1..NUM_PRODUCERS -> 1..MaxItems]
    /\ SumTo(num_sales, NUM_PRODUCERS) <= MaxItems
    /\ InitState

InitQ12 ==
    /\ program = "q1_2"
    /\ NUM_CONSUMERS \in 1..(MaxThreads - 1)
    /\ InitShared
    /\ cpc = [c \in 1..NUM_CONSUMERS |-> "sem_wait"]

(***************************************************************************)
(* q1_2.c : producer                                                       *)
(***************************************************************************)

\* sem_wait(&empty_slots);
q12_producer_sem_wait(p) ==
    /\ program = "q1_2"
    /\ ppc[p] = "sem_wait"
    /\ SemCanWait(empty_slots)
    /\ empty_slots' = empty_slots - 1
    /\ ppc' = [ppc EXCEPT ![p] = "lock"]
    /\ UNCHANGED <<cfgVars, leibVars, bufVars, mutex, full_slots,
                   active_producers, cond_waiters, p_i, p_k, cpc,
                   sales_processed, items_consumed, c_k, mpc, m_k, histVars>>

\* pthread_mutex_lock(&mutex);
q12_producer_lock(p) ==
    /\ program = "q1_2"
    /\ ppc[p] = "lock"
    /\ mutex = NoThread
    /\ mutex' = ProducerThread(p)
    /\ ppc' = [ppc EXCEPT ![p] = "insert"]
    /\ UNCHANGED <<cfgVars, leibVars, bufVars, empty_slots, full_slots,
                   active_producers, cond_waiters, p_i, p_k, cpc,
                   sales_processed, items_consumed, c_k, mpc, m_k, histVars>>

\* buffer[in_idx] = sale_value; in_idx = (in_idx + 1) % BUFFER_SIZE; count++;
q12_producer_insert(p, sale_value) ==
    /\ program = "q1_2"
    /\ ppc[p] = "insert"
    /\ buffer' = [buffer EXCEPT ![in_idx] = sale_value]
    /\ in_idx' = NextIn(in_idx, BUFFER_SIZE)
    /\ count' = count + 1
    /\ ppc' = [ppc EXCEPT ![p] = "unlock"]
    /\ slot_tag' = [slot_tag EXCEPT ![in_idx] = <<p, p_i[p] + 1>>]
    /\ unread' = unread \cup {in_idx}
    /\ slot_seq' = [slot_seq EXCEPT ![in_idx] = n_put + 1]
    /\ n_put' = n_put + 1
    /\ put_count' = [put_count EXCEPT ![<<p, p_i[p] + 1>>] = @ + 1]
    /\ UNCHANGED <<cfgVars, leibVars, out_idx, mutex, empty_slots, full_slots,
                   active_producers, cond_waiters, p_i, p_k, cpc,
                   sales_processed, items_consumed, c_k, mpc, m_k, n_take,
                   take_count, last_take, shutdown_posts, reposts, dec_result,
                   last_batch, batch_total>>

\* pthread_mutex_unlock(&mutex);
q12_producer_unlock(p) ==
    /\ program = "q1_2"
    /\ ppc[p] = "unlock"
    /\ mutex' = NoThread
    /\ ppc' = [ppc EXCEPT ![p] = "sem_post"]
    /\ UNCHANGED <<cfgVars, leibVars, bufVars, empty_slots, full_slots,
                   active_producers, cond_waiters, p_i, p_k, cpc,
                   sales_processed, items_consumed, c_k, mpc, m_k, histVars>>

\* sem_post(&full_slots); sleep(...); i++ and the loop test
q12_producer_sem_post(p) ==
    /\ program = "q1_2"
    /\ ppc[p] = "sem_post"
    /\ full_slots' = full_slots + 1
    /\ p_i' = [p_i EXCEPT ![p] = p_i[p] + 1]
    /\ ppc' = [ppc EXCEPT ![p] = LoopHead(p_i[p] + 1, num_sales[p])]
    /\ UNCHANGED <<cfgVars, leibVars, bufVars, mutex, empty_slots,
                   active_producers, cond_waiters, p_k, cpc, sales_processed,
                   items_consumed, c_k, mpc, m_k, histVars>>

\* pthread_mutex_lock(&mutex);   (final section)
q12_producer_fin_lock(p) ==
    /\ program = "q1_2"
    /\ ppc[p] = "fin_lock"
    /\ mutex = NoThread
    /\ mutex' = ProducerThread(p)
    /\ ppc' = [ppc EXCEPT ![p] = "fin_dec"]
    /\ UNCHANGED <<cfgVars, leibVars, bufVars, empty_slots, full_slots,
                   active_producers, cond_waiters, p_i, p_k, cpc,
                   sales_processed, items_consumed, c_k, mpc, m_k, histVars>>

\* active_producers--; if (active_producers == 0) { for (i = 0; i < NUM_CONSUMERS; ...
q12_producer_fin_dec(p) ==
    /\ program = "q1_2"
    /\ ppc[p] = "fin_dec"
    /\ active_producers' = Decremented(active_producers)
    /\ dec_result' = [dec_result EXCEPT ![p] = Decremented(active_producers)]
    /\ p_k' = [p_k EXCEPT ![p] = 0]
    /\ ppc' = [ppc EXCEPT ![p] =
                 IF Decremented(active_producers) = 0 /\ 0 < ShutdownFanout(NUM_CONSUMERS)
                 THEN "fin_post" ELSE "fin_unlock"]
    /\ UNCHANGED <<cfgVars, leibVars, bufVars, mutex, empty_slots, full_slots,
                   cond_waiters, p_i, cpc, sales_processed, items_consumed,
                   c_k, mpc, m_k, slot_tag, unread, slot_seq, n_put, n_take,
                   put_count, take_count, last_take, shutdown_posts, reposts,
                   last_batch, batch_total>>

\* a shutdown loop whose iteration posts nothing
q12_producer_fin_post_Skip(p) ==
    /\ program = "q1_2"
    /\ ppc[p] = "fin_post"
    /\ p_k' = [p_k EXCEPT ![p] = p_k[p] + 1]
    /\ ppc' = [ppc EXCEPT ![p] =
                 IF p_k[p] + 1 < ShutdownFanout(NUM_CONSUMERS)
                 THEN "fin_post" ELSE "fin_unlock"]
    /\ UNCHANGED <<cfgVars, leibVars, bufVars, mutex, empty_slots, full_slots,
                   active_producers, cond_waiters, p_i, cpc, sales_processed,
                   items_consumed, c_k, mpc, m_k, histVars>>

\* sem_post(&full_slots); i++   (one iteration of the shutdown loop)
q12_producer_fin_post(p) ==
    /\ program = "q1_2"
    /\ ppc[p] = "fin_post"
    /\ full_slots' = full_slots + 1
    /\ p_k' = [p_k EXCEPT ![p] = p_k[p] + 1]
    /\ shutdown_posts' = [shutdown_posts EXCEPT ![p] = shutdown_posts[p] + 1]
    /\ ppc' = [ppc EXCEPT ![p] =
                 IF p_k[p] + 1 < ShutdownFanout(NUM_CONSUMERS)
                 THEN "fin_post" ELSE "fin_unlock"]
    /\ UNCHANGED <<cfgVars, leibVars, bufVars, mutex, empty_slots,
                   active_producers, cond_waiters, p_i, cpc, sales_processed,
                   items_consumed, c_k, mpc, m_k, slot_tag, unread, slot_seq,
                   n_put, n_take, put_count, take_count, last_take, reposts,
                   dec_result, last_batch, batch_total>>

\* pthread_mutex_unlock(&mutex); free(p_args); pthread_exit(NULL);
q12_producer_fin_unlock(p) ==
    /\ program = "q1_2"
    /\ ppc[p] = "fin_unlock"
    /\ mutex' = NoThread
    /\ ppc' = [ppc EXCEPT ![p] = "done"]
    /\ UNCHANGED <<cfgVars, leibVars, bufVars, empty_slots, full_slots,
                   active_producers, cond_waiters, p_i, p_k, cpc,
                   sales_processed, items_consumed, c_k, mpc, m_k, histVars>>

q12_producer(p) ==
    \/ q12_producer_sem_wait(p)
    \/ q12_producer_lock(p)
    \/ q12_producer_insert(p, rand_sale_value(p, p_i[p] + 1))
    \/ q12_producer_unlock(p)
    \/ q12_producer_sem_post(p)
    \/ q12_producer_fin_lock(p)
    \/ q12_producer_fin_dec(p)
    \/ q12_producer_fin_post(p)
    \/ q12_producer_fin_unlock(p)

(***************************************************************************)
(* q1_2.c : consumer                                                       *)
(***************************************************************************)

\* a consumer that passes sem_wait(&full_slots) without taking the permit
q12_consumer_sem_wait_KeepPermit(c) ==
    /\ program = "q1_2"
    /\ cpc[c] = "sem_wait"
    /\ SemCanWait(full_slots)
    /\ cpc' = [cpc EXCEPT ![c] = "lock"]
    /\ UNCHANGED <<cfgVars, leibVars, bufVars, mutex, empty_slots, full_slots,
                   active_producers, cond_waiters, ppc, p_i, p_k,
                   sales_processed, items_consumed, c_k, mpc, m_k, histVars>>

\* sem_wait(&full_slots);
q12_consumer_sem_wait(c) ==
    /\ program = "q1_2"
    /\ cpc[c] = "sem_wait"
    /\ SemCanWait(full_slots)
    /\ full_slots' = full_slots - 1
    /\ cpc' = [cpc EXCEPT ![c] = "lock"]
    /\ UNCHANGED <<cfgVars, leibVars, bufVars, mutex, empty_slots,
                   active_producers, cond_waiters, ppc, p_i, p_k,
                   sales_processed, items_consumed, c_k, mpc, m_k, histVars>>

\* a lock that is granted while another thread holds the mutex
q12_consumer_lock_Barge(c) ==
    /\ program = "q1_2"
    /\ cpc[c] = "lock"
    /\ mutex' = ConsumerThread(c)
    /\ cpc' = [cpc EXCEPT ![c] = "check"]
    /\ UNCHANGED <<cfgVars, leibVars, bufVars, empty_slots, full_slots,
                   active_producers, cond_waiters, ppc, p_i, p_k,
                   sales_processed, items_consumed, c_k, mpc, m_k, histVars>>

\* pthread_mutex_lock(&mutex);
q12_consumer_lock(c) ==
    /\ program = "q1_2"
    /\ cpc[c] = "lock"
    /\ mutex = NoThread
    /\ mutex' = ConsumerThread(c)
    /\ cpc' = [cpc EXCEPT ![c] = "check"]
    /\ UNCHANGED <<cfgVars, leibVars, bufVars, empty_slots, full_slots,
                   active_producers, cond_waiters, ppc, p_i, p_k,
                   sales_processed, items_consumed, c_k, mpc, m_k, histVars>>

\* if (active_producers == 0 && count == 0)
q12_consumer_check(c) ==
    /\ program = "q1_2"
    /\ cpc[c] = "check"
    /\ cpc' = [cpc EXCEPT ![c] =
                 IF ShouldExit(active_producers, count)
                 THEN "exit_unlock" ELSE "remove"]
    /\ UNCHANGED <<cfgVars, leibVars, bufVars, mutex, empty_slots, full_slots,
                   active_producers, cond_waiters, ppc, p_i, p_k,
                   sales_processed, items_consumed, c_k, mpc, m_k, histVars>>

\* sale_value = buffer[out_idx]; out_idx = (out_idx + 1) % BUFFER_SIZE;
\* count--; sales_processed++; printf(...)
q12_consumer_remove(c) ==
    /\ program = "q1_2"
    /\ cpc[c] = "remove"
    /\ out_idx' = NextOut(out_idx, BUFFER_SIZE)
    /\ count' = count - 1
    /\ sales_processed' = [sales_processed EXCEPT ![c] = sales_processed[c] + 1]
    /\ cpc' = [cpc EXCEPT ![c] = "unlock"]
    /\ last_take' = [consumer |-> c,
                     tag |-> slot_tag[out_idx],
                     seq |-> slot_seq[out_idx],
                     value |-> buffer[out_idx],
                     fresh |-> out_idx \in unread]
    /\ n_take' = n_take + 1
    /\ take_count' = [take_count EXCEPT ![slot_tag[out_idx]] = @ + 1]
    /\ unread' = unread \ {out_idx}
    /\ UNCHANGED <<cfgVars, leibVars, buffer, in_idx, mutex, empty_slots,
                   full_slots, active_producers, cond_waiters, ppc, p_i, p_k,
                   items_consumed, c_k, mpc, m_k, slot_tag, slot_seq, n_put,
                   put_count, shutdown_posts, reposts, dec_result, last_batch,
                   batch_total>>

\* a consumer that leaves the critical section without releasing the mutex
q12_consumer_unlock_Keep(c) ==
    /\ program = "q1_2"
    /\ cpc[c] = "unlock"
    /\ cpc' = [cpc EXCEPT ![c] = "sem_post"]
    /\ UNCHANGED <<cfgVars, leibVars, bufVars, mutex, empty_slots, full_slots,
                   active_producers, cond_waiters, ppc, p_i, p_k,
                   sales_processed, items_consumed, c_k, mpc, m_k, histVars>>

\* pthread_mutex_unlock(&mutex);
q12_consumer_unlock(c) ==
    /\ program = "q1_2"
    /\ cpc[c] = "unlock"
    /\ mutex' = NoThread
    /\ cpc' = [cpc EXCEPT ![c] = "sem_post"]
    /\ UNCHANGED <<cfgVars, leibVars, bufVars, empty_slots, full_slots,
                   active_producers, cond_waiters, ppc, p_i, p_k,
                   sales_processed, items_consumed, c_k, mpc, m_k, histVars>>

\* a consumer that does not give the emptied slot back
q12_consumer_sem_post_Skip(c) ==
    /\ program = "q1_2"
    /\ cpc[c] = "sem_post"
    /\ cpc' = [cpc EXCEPT ![c] = "sem_wait"]
    /\ UNCHANGED <<cfgVars, leibVars, bufVars, mutex, empty_slots, full_slots,
                   active_producers, cond_waiters, ppc, p_i, p_k,
                   sales_processed, items_consumed, c_k, mpc, m_k, histVars>>

\* sem_post(&empty_slots);  and back to the top of while (1)
q12_consumer_sem_post(c) ==
    /\ program = "q1_2"
    /\ cpc[c] = "sem_post"
    /\ empty_slots' = empty_slots + 1
    /\ cpc' = [cpc EXCEPT ![c] = "sem_wait"]
    /\ UNCHANGED <<cfgVars, leibVars, bufVars, mutex, full_slots,
                   active_producers, cond_waiters, ppc, p_i, p_k,
                   sales_processed, items_consumed, c_k, mpc, m_k, histVars>>

\* exit branch: pthread_mutex_unlock(&mutex);
q12_consumer_exit_unlock(c) ==
    /\ program = "q1_2"
    /\ cpc[c] = "exit_unlock"
    /\ mutex' = NoThread
    /\ cpc' = [cpc EXCEPT ![c] = "repost"]
    /\ UNCHANGED <<cfgVars, leibVars, bufVars, empty_slots, full_slots,
                   active_producers, cond_waiters, ppc, p_i, p_k,
                   sales_processed, items_consumed, c_k, mpc, m_k, histVars>>

\* the exit branch without its sem_post(&full_slots)
q12_consumer_repost_Skip(c) ==
    /\ program = "q1_2"
    /\ cpc[c] = "repost"
    /\ cpc' = [cpc EXCEPT ![c] = "done"]
    /\ UNCHANGED <<cfgVars, leibVars, bufVars, mutex, empty_slots, full_slots,
                   active_producers, cond_waiters, ppc, p_i, p_k,
                   sales_processed, items_consumed, c_k, mpc, m_k, histVars>>

\* exit branch: sem_post(&full_slots); break; printf; free; pthread_exit(NULL);
q12_consumer_repost(c) ==
    /\ program = "q1_2"
    /\ cpc[c] = "repost"
    /\ full_slots' = full_slots + 1
    /\ reposts' = [reposts EXCEPT ![c] = reposts[c] + 1]
    /\ cpc' = [cpc EXCEPT ![c] = "done"]
    /\ UNCHANGED <<cfgVars, leibVars, bufVars, mutex, empty_slots,
                   active_producers, cond_waiters, ppc, p_i, p_k,
                   sales_processed, items_consumed, c_k, mpc, m_k, slot_tag,
                   unread, slot_seq, n_put, n_take, put_count, take_count,
                   last_take, shutdown_posts, dec_result, last_batch,
                   batch_total>>

q12_consumer(c) ==
    \/ q12_consumer_sem_wait(c)
    \/ q12_consumer_lock(c)
    \/ q12_consumer_check(c)
    \/ q12_consumer_remove(c)
    \/ q12_consumer_unlock(c)
    \/ q12_consumer_sem_post(c)
    \/ q12_consumer_exit_unlock(c)
    \/ q12_consumer_repost(c)

(***************************************************************************)
(* q1_2.c : main, after the threads are created                            *)
(***************************************************************************)

\* One loop of main over m_k = 0 .. n-1: where main is after this iteration.
MainLoopNext(n, here, after) == IF m_k + 1 < n THEN here ELSE after
MainIndexNext(n) == IF m_k + 1 < n THEN m_k + 1 ELSE 0

\* The sem_post(&full_slots) calls main has made in its loop after the
\* producers are joined.
MainPosts ==
    IF mpc = "post" THEN m_k
    ELSE IF mpc \in {"join_consumers", "done"} THEN NUM_CONSUMERS
    ELSE 0

\* for (i < NUM_PRODUCERS) pthread_join(producers[i], NULL);   one iteration,
\* i = m_k: the join returns when that producer has ended.
q12_main_join_producers ==
    /\ program = "q1_2"
    /\ mpc = "join_producers"
    /\ ppc[m_k + 1] = "done"
    /\ m_k' = MainIndexNext(NUM_PRODUCERS)
    /\ mpc' = IF m_k + 1 < NUM_PRODUCERS THEN "join_producers"
              ELSE IF 0 < NUM_CONSUMERS THEN "post" ELSE "done"
    /\ UNCHANGED <<cfgVars, leibVars, bufVars, mutex, empty_slots, full_slots,
                   active_producers, cond_waiters, ppc, p_i, p_k, cpc,
                   sales_processed, items_consumed, c_k, histVars>>

\* for (i < NUM_CONSUMERS) sem_post(&full_slots);   (one iteration)
q12_main_post ==
    /\ program = "q1_2"
    /\ mpc = "post"
    /\ full_slots' = full_slots + 1
    /\ m_k' = MainIndexNext(NUM_CONSUMERS)
    /\ mpc' = MainLoopNext(NUM_CONSUMERS, "post", "join_consumers")
    /\ UNCHANGED <<cfgVars, leibVars, bufVars, mutex, empty_slots,
                   active_producers, cond_waiters, ppc, p_i, p_k, cpc,
                   sales_processed, items_consumed, c_k, histVars>>

\* for (i < NUM_CONSUMERS) pthread_join(consumers[i], NULL);   one iteration,
\* i = m_k; after the last one the destroy calls and return 0.
q12_main_join_consumers ==
    /\ program = "q1_2"
    /\ mpc = "join_consumers"
    /\ cpc[m_k + 1] = "done"
    /\ m_k' = MainIndexNext(NUM_CONSUMERS)
    /\ mpc' = MainLoopNext(NUM_CONSUMERS, "join_consumers", "done")
    /\ UNCHANGED <<cfgVars, leibVars, bufVars, mutex, empty_slots, full_slots,
                   active_producers, cond_waiters, ppc, p_i, p_k, cpc,
                   sales_processed, items_consumed, c_k, histVars>>

q12_main ==
    \/ q12_main_join_producers
    \/ q12_main_post
    \/ q12_main_join_consumers

NextQ12 ==
    \/ \E p \in Producers : q12_producer_sem_wait(p)
    \/ \E p \in Producers : q12_producer_lock(p)
    \/ \E p \in Producers : q12_producer_insert(p, rand_sale_value(p, p_i[p] + 1))
    \/ \E p \in Producers : q12_producer_unlock(p)
    \/ \E p \in Producers : q12_producer_sem_post(p)
    \/ \E p \in Producers : q12_producer_fin_lock(p)
    \/ \E p \in Producers : q12_producer_fin_dec(p)
    \/ \E p \in Producers : q12_producer_fin_post(p)
    \/ \E p \in Producers : q12_producer_fin_unlock(p)
    \/ \E c \in Consumers : q12_consumer_sem_wait(c)
    \/ \E c \in Consumers : q12_consumer_lock(c)
    \/ \E c \in Consumers : q12_consumer_check(c)
    \/ \E c \in Consumers : q12_consumer_remove(c)
    \/ \E c \in Consumers : q12_consumer_unlock(c)
    \/ \E c \in Consumers : q12_consumer_sem_post(c)
    \/ \E c \in Consumers : q12_consumer_exit_unlock(c)
    \/ \E c \in Consumers : q12_consumer_repost(c)
    \/ q12_main_join_producers
    \/ q12_main_post
    \/ q12_main_join_consumers

SpecQ12 == InitQ12 /\ [][NextQ12]_vars

(***************************************************************************)
(* q1_1.c : producer                                                       *)
(***************************************************************************)

InitQ11 ==
    /\ program = "q1_1"
    /\ NUM_CONSUMERS = 1
    /\ InitShared
    /\ cpc = [c \in 1..NUM_CONSUMERS |-> "lock"]

\* pthread_cond_signal(&buffer_full_cond): wakes one thread blocked on the
\* condition variable, if there is one; otherwise it has no effect.
CondSignal(w) ==
    IF cond_waiters = {}
    THEN /\ cond_waiters' = cond_waiters
         /\ cpc' = cpc
    ELSE /\ w \in cond_waiters
         /\ cond_waiters' = cond_waiters \ {w}
         /\ cpc' = [cpc EXCEPT ![w] = "cond_relock"]

\* a broadcast that wakes nobody
CondBroadcast_Lost == UNCHANGED <<cond_waiters, cpc>>

\* pthread_cond_broadcast(&buffer_full_cond): wakes every blocked thread.
CondBroadcast ==
    /\ cond_waiters' = {}
    /\ cpc' = [c \in DOMAIN cpc |->
                 IF c \in cond_waiters THEN "cond_relock" ELSE cpc[c]]

\* sem_wait(&empty_slots);
q11_producer_sem_wait(p) ==
    /\ program = "q1_1"
    /\ ppc[p] = "sem_wait"
    /\ SemCanWait(empty_slots)
    /\ empty_slots' = empty_slots - 1
    /\ ppc' = [ppc EXCEPT ![p] = "lock"]
    /\ UNCHANGED <<cfgVars, leibVars, bufVars, mutex, full_slots,
                   active_producers, cond_waiters, p_i, p_k, cpc,
                   sales_processed, items_consumed, c_k, mpc, m_k, histVars>>

\* pthread_mutex_lock(&mutex);
q11_producer_lock(p) ==
    /\ program = "q1_1"
    /\ ppc[p] = "lock"
    /\ mutex = NoThread
    /\ mutex' = ProducerThread(p)
    /\ ppc' = [ppc EXCEPT ![p] = "insert"]
    /\ UNCHANGED <<cfgVars, leibVars, bufVars, empty_slots, full_slots,
                   active_producers, cond_waiters, p_i, p_k, cpc,
                   sales_processed, items_consumed, c_k, mpc, m_k, histVars>>

\* buffer[in_idx] = sale_value; in_idx = (in_idx + 1) % BUFFER_SIZE; count++;
\* if (count == BUFFER_SIZE) pthread_cond_signal(&buffer_full_cond);
q11_producer_insert(p, sale_value) ==
    /\ program = "q1_1"
    /\ ppc[p] = "insert"
    /\ buffer' = [buffer EXCEPT ![in_idx] = sale_value]
    /\ in_idx' = NextIn(in_idx, BUFFER_SIZE)
    /\ count' = count + 1
    /\ IF count + 1 = BUFFER_SIZE /\ cond_waiters # {}
       THEN \E w \in cond_waiters : CondSignal(w)
       ELSE UNCHANGED <<cond_waiters, cpc>>
    /\ ppc' = [ppc EXCEPT ![p] = "unlock"]
    /\ slot_tag' = [slot_tag EXCEPT ![in_idx] = <<p, p_i[p] + 1>>]
    /\ unread' = unread \cup {in_idx}
    /\ slot_seq' = [slot_seq EXCEPT ![in_idx] = n_put + 1]
    /\ n_put' = n_put + 1
    /\ put_count' = [put_count EXCEPT ![<<p, p_i[p] + 1>>] = @ + 1]
    /\ UNCHANGED <<cfgVars, leibVars, out_idx, mutex, empty_slots, full_slots,
                   active_producers, p_i, p_k, sales_processed,
                   items_consumed, c_k, mpc, m_k, n_take, take_count,
                   last_take, shutdown_posts, reposts, dec_result, last_batch,
                   batch_total>>

\* pthread_mutex_unlock(&mutex);
q11_producer_unlock(p) ==
    /\ program = "q1_1"
    /\ ppc[p] = "unlock"
    /\ mutex' = NoThread
    /\ ppc' = [ppc EXCEPT ![p] = "sem_post"]
    /\ UNCHANGED <<cfgVars, leibVars, bufVars, empty_slots, full_slots,
                   active_producers, cond_waiters, p_i, p_k, cpc,
                   sales_processed, items_consumed, c_k, mpc, m_k, histVars>>

\* sem_post(&full_slots); sleep(...); i++ and the loop test
q11_producer_sem_post(p) ==
    /\ program = "q1_1"
    /\ ppc[p] = "sem_post"
    /\ full_slots' = full_slots + 1
    /\ p_i' = [p_i EXCEPT ![p] = p_i[p] + 1]
    /\ ppc' = [ppc EXCEPT ![p] = LoopHead(p_i[p] + 1, num_sales[p])]
    /\ UNCHANGED <<cfgVars, leibVars, bufVars, mutex, empty_slots,
                   active_producers, cond_waiters, p_k, cpc, sales_processed,
                   items_consumed, c_k, mpc, m_k, histVars>>

\* pthread_mutex_lock(&mutex);   (final section)
q11_producer_fin_lock(p) ==
    /\ program = "q1_1"
    /\ ppc[p] = "fin_lock"
    /\ mutex = NoThread
    /\ mutex' = ProducerThread(p)
    /\ ppc' = [ppc EXCEPT ![p] = "fin_dec"]
    /\ UNCHANGED <<cfgVars, leibVars, bufVars, empty_slots, full_slots,
                   active_producers, cond_waiters, p_i, p_k, cpc,
                   sales_processed, items_consumed, c_k, mpc, m_k, histVars>>

\* active_producers--; if (active_producers == 0) pthread_cond_broadcast(...);
q11_producer_fin_dec(p) ==
    /\ program = "q1_1"
    /\ ppc[p] = "fin_dec"
    /\ active_producers' = Decremented(active_producers)
    /\ dec_result' = [dec_result EXCEPT ![p] = Decremented(active_producers)]
    /\ IF Decremented(active_producers) = 0
       THEN CondBroadcast
       ELSE UNCHANGED <<cond_waiters, cpc>>
    /\ ppc' = [ppc EXCEPT ![p] = "fin_unlock"]
    /\ UNCHANGED <<cfgVars, leibVars, bufVars, mutex, empty_slots, full_slots,
                   p_i, p_k, sales_processed, items_consumed, c_k, mpc, m_k,
                   slot_tag, unread, slot_seq, n_put, n_take, put_count,
                   take_count, last_take, shutdown_posts, reposts, last_batch,
                   batch_total>>

\* pthread_mutex_unlock(&mutex); free(p_args); pthread_exit(NULL);
q11_producer_fin_unlock(p) ==
    /\ program = "q1_1"
    /\ ppc[p] = "fin_unlock"
    /\ mutex' = NoThread
    /\ ppc' = [ppc EXCEPT ![p] = "done"]
    /\ UNCHANGED <<cfgVars, leibVars, bufVars, empty_slots, full_slots,
                   active_producers, cond_waiters, p_i, p_k, cpc,
                   sales_processed, items_consumed, c_k, mpc, m_k, histVars>>

q11_producer(p) ==
    \/ q11_producer_sem_wait(p)
    \/ q11_producer_lock(p)
    \/ q11_producer_insert(p, rand_sale_value(p, p_i[p] + 1))
    \/ q11_producer_unlock(p)
    \/ q11_producer_sem_post(p)
    \/ q11_producer_fin_lock(p)
    \/ q11_producer_fin_dec(p)
    \/ q11_producer_fin_unlock(p)

(***************************************************************************)
(* q1_1.c : consumer (the manager)                                         *)
(***************************************************************************)

\* while (count < BUFFER_SIZE && active_producers > 0)
MustWait_OnlyWhenEmpty(cnt, size, ap) == cnt = 0 /\ ap > 0
MustWait(cnt, size, ap) == cnt < size /\ ap > 0

\* if (active_producers == 0 && count == 0)
ManagerShouldExit_IgnoreCount(ap, cnt) == ap = 0
ManagerShouldExit(ap, cnt) == ap = 0 /\ cnt = 0

\* for (int i = 0; i < items_consumed; i++) sem_post(&empty_slots);
PostsPerBatch_Full(items, size) == size
PostsPerBatch(items, size) == items

\* pthread_mutex_lock(&mutex);   (top of while (1))
q11_consumer_lock(c) ==
    /\ program = "q1_1"
    /\ cpc[c] = "lock"
    /\ mutex = NoThread
    /\ mutex' = ConsumerThread(c)
    /\ cpc' = [cpc EXCEPT ![c] = "while"]
    /\ UNCHANGED <<cfgVars, leibVars, bufVars, empty_slots, full_slots,
                   active_producers, cond_waiters, ppc, p_i, p_k,
                   sales_processed, items_consumed, c_k, mpc, m_k, histVars>>

\* while (count < BUFFER_SIZE && active_producers > 0)
\*     pthread_cond_wait(&buffer_full_cond, &mutex);
\* Entering the wait releases the mutex and blocks on the condition variable.
q11_consumer_while(c) ==
    /\ program = "q1_1"
    /\ cpc[c] = "while"
    /\ IF MustWait(count, BUFFER_SIZE, active_producers)
       THEN /\ mutex' = NoThread
            /\ cond_waiters' = cond_waiters \cup {c}
            /\ cpc' = [cpc EXCEPT ![c] = "cond_wait"]
       ELSE /\ cpc' = [cpc EXCEPT ![c] = "check"]
            /\ UNCHANGED <<mutex, cond_waiters>>
    /\ UNCHANGED <<cfgVars, leibVars, bufVars, empty_slots, full_slots,
                   active_producers, ppc, p_i, p_k, sales_processed,
                   items_consumed, c_k, mpc, m_k, histVars>>

\* pthread_cond_wait may return without any signal (POSIX spurious wakeup).
q11_consumer_spurious_wakeup(c) ==
    /\ program = "q1_1"
    /\ cpc[c] = "cond_wait"
    /\ c \in cond_waiters
    /\ cond_waiters' = cond_waiters \ {c}
    /\ cpc' = [cpc EXCEPT ![c] = "cond_relock"]
    /\ UNCHANGED <<cfgVars, leibVars, bufVars, mutex, empty_slots, full_slots,
                   active_producers, ppc, p_i, p_k, sales_processed,
                   items_consumed, c_k, mpc, m_k, histVars>>

\* pthread_cond_wait returning: the woken thread re-acquires the mutex.
q11_consumer_cond_relock(c) ==
    /\ program = "q1_1"
    /\ cpc[c] = "cond_relock"
    /\ mutex = NoThread
    /\ mutex' = ConsumerThread(c)
    /\ cpc' = [cpc EXCEPT ![c] = "while"]
    /\ UNCHANGED <<cfgVars, leibVars, bufVars, empty_slots, full_slots,
                   active_producers, cond_waiters, ppc, p_i, p_k,
                   sales_processed, items_consumed, c_k, mpc, m_k, histVars>>

\* if (active_producers == 0 && count == 0) { ... break; }
\* if (count > 0) { items_consumed = count; ... } else { pthread_mutex_unlock(&mutex); }
q11_consumer_check(c) ==
    /\ program = "q1_1"
    /\ cpc[c] = "check"
    /\ IF ManagerShouldExit(active_producers, count)
       THEN /\ cpc' = [cpc EXCEPT ![c] = "exit_unlock"]
            /\ UNCHANGED <<mutex, items_consumed, c_k>>
       ELSE IF count > 0
       THEN /\ items_consumed' = [items_consumed EXCEPT ![c] = count]
            /\ c_k' = [c_k EXCEPT ![c] = 0]
            /\ cpc' = [cpc EXCEPT ![c] = "batch_read"]
            /\ UNCHANGED mutex
       ELSE /\ mutex' = NoThread
            /\ cpc' = [cpc EXCEPT ![c] = "lock"]
            /\ UNCHANGED <<items_consumed, c_k>>
    /\ UNCHANGED <<cfgVars, leibVars, bufVars, empty_slots, full_slots,
                   active_producers, cond_waiters, ppc, p_i, p_k,
                   sales_processed, mpc, m_k, histVars>>

\* for (i = 0; i < items_consumed; i++) { sale_value = buffer[out_idx];
\*     total_sum += sale_value; out_idx = (out_idx + 1) % BUFFER_SIZE; }
\* and, after the last iteration: count = 0; average; printf
q11_consumer_batch_read(c) ==
    /\ program = "q1_1"
    /\ cpc[c] = "batch_read"
    /\ out_idx' = NextOut(out_idx, BUFFER_SIZE)
    /\ last_take' = [consumer |-> c,
                     tag |-> slot_tag[out_idx],
                     seq |-> slot_seq[out_idx],
                     value |-> buffer[out_idx],
                     fresh |-> out_idx \in unread]
    /\ n_take' = n_take + 1
    /\ take_count' = [take_count EXCEPT ![slot_tag[out_idx]] = @ + 1]
    /\ unread' = unread \ {out_idx}
    /\ IF c_k[c] + 1 < items_consumed[c]
       THEN /\ c_k' = [c_k EXCEPT ![c] = c_k[c] + 1]
            /\ UNCHANGED <<count, cpc, last_batch, batch_total>>
       ELSE /\ count' = 0
            /\ c_k' = [c_k EXCEPT ![c] = 0]
            /\ cpc' = [cpc EXCEPT ![c] = "unlock"]
            /\ last_batch' = [size |-> items_consumed[c],
                              active |-> active_producers]
            /\ batch_total' = batch_total + items_consumed[c]
    /\ UNCHANGED <<cfgVars, leibVars, buffer, in_idx, mutex, empty_slots,
                   full_slots, active_producers, cond_waiters, ppc, p_i, p_k,
                   sales_processed, items_consumed, mpc, m_k, slot_tag,
                   slot_seq, n_put, put_count, shutdown_posts, reposts,
                   dec_result>>

\* pthread_mutex_unlock(&mutex);
q11_consumer_unlock(c) ==
    /\ program = "q1_1"
    /\ cpc[c] = "unlock"
    /\ mutex' = NoThread
    /\ cpc' = [cpc EXCEPT ![c] = "post"]
    /\ UNCHANGED <<cfgVars, leibVars, bufVars, empty_slots, full_slots,
                   active_producers, cond_waiters, ppc, p_i, p_k,
                   sales_processed, items_consumed, c_k, mpc, m_k, histVars>>

\* for (i = 0; i < items_consumed; i++) sem_post(&empty_slots);   (one iteration)
q11_consumer_post(c) ==
    /\ program = "q1_1"
    /\ cpc[c] = "post"
    /\ empty_slots' = empty_slots + 1
    /\ IF c_k[c] + 1 < PostsPerBatch(items_consumed[c], BUFFER_SIZE)
       THEN /\ c_k' = [c_k EXCEPT ![c] = c_k[c] + 1]
            /\ UNCHANGED cpc
       ELSE /\ c_k' = [c_k EXCEPT ![c] = 0]
            /\ cpc' = [cpc EXCEPT ![c] = "lock"]
    /\ UNCHANGED <<cfgVars, leibVars, bufVars, mutex, full_slots,
                   active_producers, cond_waiters, ppc, p_i, p_k,
                   sales_processed, items_consumed, mpc, m_k, histVars>>

\* exit branch: pthread_mutex_unlock(&mutex); break; printf; pthread_exit(NULL);
q11_consumer_exit_unlock(c) ==
    /\ program = "q1_1"
    /\ cpc[c] = "exit_unlock"
    /\ mutex' = NoThread
    /\ cpc' = [cpc EXCEPT ![c] = "done"]
    /\ UNCHANGED <<cfgVars, leibVars, bufVars, empty_slots, full_slots,
                   active_producers, cond_waiters, ppc, p_i, p_k,
                   sales_processed, items_consumed, c_k, mpc, m_k, histVars>>

q11_consumer(c) ==
    \/ q11_consumer_lock(c)
    \/ q11_consumer_while(c)
    \/ q11_consumer_spurious_wakeup(c)
    \/ q11_consumer_cond_relock(c)
    \/ q11_consumer_check(c)
    \/ q11_consumer_batch_read(c)
    \/ q11_consumer_unlock(c)
    \/ q11_consumer_post(c)
    \/ q11_consumer_exit_unlock(c)

(***************************************************************************)
(* q1_1.c : main, after the threads are created                            *)
(***************************************************************************)

\* for (i < NUM_PRODUCERS) pthread_join(producers[i], NULL);   one iteration,
\* i = m_k.
q11_main_join_producers ==
    /\ program = "q1_1"
    /\ mpc = "join_producers"
    /\ ppc[m_k + 1] = "done"
    /\ m_k' = MainIndexNext(NUM_PRODUCERS)
    /\ mpc' = IF m_k + 1 < NUM_PRODUCERS THEN "join_producers"
              ELSE IF 0 < NUM_CONSUMERS THEN "join_consumers" ELSE "done"
    /\ UNCHANGED <<cfgVars, leibVars, bufVars, mutex, empty_slots, full_slots,
                   active_producers, cond_waiters, ppc, p_i, p_k, cpc,
                   sales_processed, items_consumed, c_k, histVars>>

\* for (i < NUM_CONSUMERS) pthread_join(consumers[i], NULL);   one iteration,
\* i = m_k; after the last one the destroy calls and return 0.
q11_main_join_consumers ==
    /\ program = "q1_1"
    /\ mpc = "join_consumers"
    /\ cpc[m_k + 1] = "done"
    /\ m_k' = MainIndexNext(NUM_CONSUMERS)
    /\ mpc' = MainLoopNext(NUM_CONSUMERS, "join_consumers", "done")
    /\ UNCHANGED <<cfgVars, leibVars, bufVars, mutex, empty_slots, full_slots,
                   active_producers, cond_waiters, ppc, p_i, p_k, cpc,
                   sales_processed, items_consumed, c_k, histVars>>

q11_main ==
    \/ q11_main_join_producers
    \/ q11_main_join_consumers

NextQ11 ==
    \/ \E p \in Producers : q11_producer_sem_wait(p)
    \/ \E p \in Producers : q11_producer_lock(p)
    \/ \E p \in Producers : q11_producer_insert(p, rand_sale_value(p, p_i[p] + 1))
    \/ \E p \in Producers : q11_producer_unlock(p)
    \/ \E p \in Producers : q11_producer_sem_post(p)
    \/ \E p \in Producers : q11_producer_fin_lock(p)
    \/ \E p \in Producers : q11_producer_fin_dec(p)
    \/ \E p \in Producers : q11_producer_fin_unlock(p)
    \/ \E c \in Consumers : q11_consumer_lock(c)
    \/ \E c \in Consumers : q11_consumer_while(c)
    \/ \E c \in Consumers : q11_consumer_spurious_wakeup(c)
    \/ \E c \in Consumers : q11_consumer_cond_relock(c)
    \/ \E c \in Consumers : q11_consumer_check(c)
    \/ \E c \in Consumers : q11_consumer_batch_read(c)
    \/ \E c \in Consumers : q11_consumer_unlock(c)
    \/ \E c \in Consumers : q11_consumer_post(c)
    \/ \E c \in Consumers : q11_consumer_exit_unlock(c)
    \/ q11_main_join_producers
    \/ q11_main_join_consumers

SpecQ11 == InitQ11 /\ [][NextQ11]_vars

(***************************************************************************)
(* Both programs                                                           *)
(***************************************************************************)
Init == InitQ11 \/ InitQ12

Next ==
    \/ NextQ11
    \/ NextQ12

Spec == Init /\ [][Next]_vars

(***************************************************************************)
(* q1_2.c under fair scheduling: every thread that can take a step is      *)
(* eventually scheduled (weak fairness per thread).                        *)
(***************************************************************************)
FairSpecQ12 ==
    /\ SpecQ12
    /\ \A p \in 1..MaxThreads : WF_vars(p \in Producers /\ q12_producer(p))
    /\ \A c \in 1..MaxThreads : WF_vars(c \in Consumers /\ q12_consumer(c))
    /\ WF_vars(q12_main)

(***************************************************************************)
(* Properties                                                              *)
(***************************************************************************)
AllProducersDone == \A p \in Producers : ppc[p] = "done"
AllConsumersDone == \A c \in Consumers : cpc[c] = "done"

\* C1: in q1_2.c, under fair scheduling, every producer and every consumer
\* eventually reaches pthread_exit, whatever the configuration (capacity 1
\* included); no consumer stays blocked in sem_wait(&full_slots) once
\* active_producers is 0 and the buffer is empty.
C1_Termination == <>(AllProducersDone /\ AllConsumersDone)

\* The shutdown moment with capacity 1: the last producer has just taken
\* active_producers to 0, the buffer is empty, no signal is pending and both
\* consumers are blocked in sem_wait(&full_slots).
C1_Witness ==
    /\ program = "q1_2"
    /\ BUFFER_SIZE = 1
    /\ NUM_CONSUMERS = 2
    /\ active_producers = 0
    /\ count = 0
    /\ full_slots = 0
    /\ \A c \in Consumers : cpc[c] = "sem_wait"

\* Items removed by the consumers so far: the sum of sales_processed in
\* q1_2.c, the sum of items_consumed over the manager's batches in q1_1.c.
TotalConsumed ==
    IF program = "q1_2"
    THEN SumTo(sales_processed, NUM_CONSUMERS)
    ELSE batch_total

\* C2: conservation.  In q1_1.c and q1_2.c, once every thread has terminated,
\* the number of items removed by the consumers equals the number of items
\* inserted, which is the sum of num_sales over the producers.
C2_Conservation ==
    (AllProducersDone /\ AllConsumersDone) =>
        /\ n_put = SumTo(num_sales, NUM_PRODUCERS)
        /\ TotalConsumed = n_put

\* q1_1.c has terminated after two producers inserted one item each into a
\* buffer of capacity 1, so the manager took more than one batch.
C2_Witness ==
    /\ program = "q1_1"
    /\ AllProducersDone /\ AllConsumersDone
    /\ NUM_PRODUCERS = 2
    /\ BUFFER_SIZE = 1
    /\ batch_total = 2

\* C3: no phantom item.  In q1_2.c a consumer reaches the removal step only
\* with count > 0, the slot it reads holds an item nobody removed yet, and
\* count is never negative, whatever signals were posted on full_slots.
C3_NoPhantomItem ==
    program = "q1_2" =>
        /\ \A c \in Consumers : cpc[c] = "remove" => count > 0
        /\ count >= 0
        /\ last_take.fresh
        /\ take_count[NoTag] = 0

\* A consumer is about to remove an item after the last producer has posted
\* all its shutdown signals and main has started posting its own.
C3_Witness ==
    /\ program = "q1_2"
    /\ NUM_CONSUMERS = 2
    /\ \E p \in Producers : shutdown_posts[p] = NUM_CONSUMERS
    /\ MainPosts >= 1
    /\ \E c \in Consumers : cpc[c] = "remove"

\* C4: bounded occupancy.  In every reachable state of q1_1.c and q1_2.c,
\* 0 <= count <= BUFFER_SIZE.
C4_BoundedOccupancy == 0 <= count /\ count <= BUFFER_SIZE

\* The buffer is full and a producer with a further item is blocked in
\* sem_wait(&empty_slots).
C4_Witness ==
    /\ count = BUFFER_SIZE
    /\ empty_slots = 0
    /\ \E p \in Producers : ppc[p] = "sem_wait" /\ p_i[p] >= 1

\* C5: a put never overwrites an unread slot.  In q1_1.c and q1_2.c, whenever
\* a producer is about to write buffer[in_idx], count < BUFFER_SIZE and the
\* slot at in_idx holds no item inserted and not yet removed.
C5_NoOverwrite ==
    \A p \in Producers :
        ppc[p] = "insert" => (count < BUFFER_SIZE /\ in_idx \notin unread)

\* A producer is about to write a slot that was written, and read, before.
C5_Witness ==
    /\ \E p \in Producers : ppc[p] = "insert"
    /\ slot_tag[in_idx] # NoTag
    /\ n_take >= 1

\* C6: FIFO.  In q1_2.c items leave the buffer in the order of the insertion
\* critical sections: the k-th removal reads the k-th inserted item, with the
\* amount its producer wrote; hence no item of a producer is removed before
\* an earlier item of the same producer.
C6_Fifo ==
    program = "q1_2" =>
        /\ n_take > 0 =>
              /\ last_take.seq = n_take
              /\ last_take.tag \in AllTags
              /\ last_take.value = rand_sale_value(last_take.tag[1], last_take.tag[2])
        /\ \A t \in AllTags :
              (t[2] > 1 /\ take_count[t] > 0) => take_count[<<t[1], t[2] - 1>>] > 0

\* Both items of one producer have been removed, one by each of two
\* consumers, the second item last.
C6_Witness ==
    /\ program = "q1_2"
    /\ NUM_CONSUMERS = 2
    /\ n_take = 2
    /\ last_take.tag = <<1, 2>>
    /\ \A c \in Consumers : sales_processed[c] = 1

\* C7: exactly-once delivery.  In q1_2.c no inserted item is removed twice,
\* nothing is removed that was not inserted, and when all consumers have
\* exited every inserted item has been removed.
C7_ExactlyOnce ==
    program = "q1_2" =>
        /\ \A t \in AllTags : take_count[t] <= put_count[t] /\ take_count[t] <= 1
        /\ take_count[NoTag] = 0
        /\ AllConsumersDone => \A t \in AllTags : put_count[t] = 1 /\ take_count[t] = 1

\* All consumers have exited after two producers inserted one item each,
\* and one consumer received both items.
C7_Witness ==
    /\ program = "q1_2"
    /\ AllConsumersDone
    /\ NUM_PRODUCERS = 2
    /\ NUM_CONSUMERS = 2
    /\ \E c \in Consumers : sales_processed[c] = 2

\* C8: re-post on shutdown wake-up.  In q1_2.c a consumer that finds
\* active_producers == 0 and count == 0 under the mutex releases the mutex
\* and posts full_slots exactly once before it exits; no consumer exits
\* without that post; no semaphore value is ever negative.
C8_RepostOnExit ==
    program = "q1_2" =>
        /\ \A c \in Consumers :
              /\ cpc[c] = "exit_unlock" =>
                    /\ mutex = ConsumerThread(c)
                    /\ active_producers = 0 /\ count = 0
                    /\ reposts[c] = 0
              /\ cpc[c] = "repost" => (mutex # ConsumerThread(c) /\ reposts[c] = 0)
              /\ cpc[c] = "done" => reposts[c] = 1
              /\ reposts[c] <= 1
        /\ full_slots >= 0
        /\ empty_slots >= 0

\* Both consumers have exited, each after its re-post, and more shutdown
\* signals were posted than there are consumers.
C8_Witness ==
    /\ program = "q1_2"
    /\ NUM_CONSUMERS = 2
    /\ AllConsumersDone
    /\ \A c \in Consumers : reposts[c] = 1
    /\ MainPosts = NUM_CONSUMERS
    /\ full_slots > NUM_CONSUMERS

\* C9: shutdown fan-out.  In q1_2.c the producer whose decrement takes
\* active_producers to 0 posts exactly NUM_CONSUMERS signals on full_slots,
\* holding the mutex from the decrement to the last post; a producer whose
\* decrement leaves active_producers > 0 posts none.
C9_ShutdownFanout ==
    program = "q1_2" =>
        \A p \in Producers :
            /\ ppc[p] \in {"fin_dec", "fin_post", "fin_unlock"} => mutex = ProducerThread(p)
            /\ shutdown_posts[p] > 0 => dec_result[p] = 0
            /\ ppc[p] = "fin_post" => (dec_result[p] = 0 /\ shutdown_posts[p] < NUM_CONSUMERS)
            /\ ppc[p] \in {"fin_unlock", "done"} =>
                  shutdown_posts[p] = (IF dec_result[p] = 0 THEN NUM_CONSUMERS ELSE 0)

\* Two producers have finished with two consumers: the first one posted no
\* shutdown signal, the last one posted two.
C9_Witness ==
    /\ program = "q1_2"
    /\ NUM_PRODUCERS = 2
    /\ NUM_CONSUMERS = 2
    /\ AllProducersDone
    /\ \E p \in Producers : dec_result[p] = 1 /\ shutdown_posts[p] = 0
    /\ \E p \in Producers : dec_result[p] = 0 /\ shutdown_posts[p] = 2

\* C10: space-permit invariant.  In every reachable state of q1_1.c and
\* q1_2.c, value(empty_slots) + count <= BUFFER_SIZE.
C10_SpacePermits == empty_slots + count <= BUFFER_SIZE

\* The manager of q1_1.c has emptied a full buffer of capacity 2 and has
\* posted one of its two space permits: the permits lag the free space.
C10_Witness ==
    /\ program = "q1_1"
    /\ BUFFER_SIZE = 2
    /\ \E c \in Consumers : cpc[c] = "post" /\ items_consumed[c] = 2 /\ c_k[c] = 1
    /\ empty_slots + count < BUFFER_SIZE


(***************************************************************************)
(* C11: item permits.  The statement as claimed: in every reachable state  *)
(* of q1_1.c and of q1_2.c the value of full_slots never exceeds count,    *)
(* shutdown included.                                                      *)
(***************************************************************************)
C11_ItemPermitsAlways == full_slots <= count

\* Wake-up posts on full_slots that announce no item: the last producer's
\* loop, main's loop after the producers are joined, each exiting consumer's
\* re-post.
ShutdownSignals ==
    SumTo(shutdown_posts, NUM_PRODUCERS) + SumTo(reposts, NUM_CONSUMERS)
        + MainPosts

\* C11 as the code has it: in q1_2.c full_slots <= count while a producer is
\* still active, and afterwards it exceeds count by at most the shutdown
\* signals posted so far; in q1_1.c, where nothing ever waits on full_slots,
\* it is bounded by the number of insertions made, not by count.
C11_ItemPermits ==
    /\ program = "q1_2" /\ active_producers > 0 => full_slots <= count
    /\ program = "q1_2" => full_slots <= count + ShutdownSignals
    /\ program = "q1_1" => full_slots <= n_put

\* q1_2.c, one producer still active, an item stored and announced, a
\* consumer between its sem_wait and its removal.
C11_Witness ==
    /\ program = "q1_2"
    /\ active_producers > 0
    /\ full_slots = 1
    /\ count = 2
    /\ \E c \in Consumers : cpc[c] = "lock"


(***************************************************************************)
(* C12: the active-producer counter, in q1_1.c and q1_2.c.  It starts at   *)
(* NUM_PRODUCERS; each producer decrements it exactly once, and only after *)
(* its last insertion; it is never incremented and never negative; once 0  *)
(* it stays 0 and no insertion happens afterwards.                         *)
(***************************************************************************)
\* Producers that have executed `active_producers--`.
HasDecremented == {p \in Producers : ppc[p] \in {"fin_post", "fin_unlock", "done"}}

C12_Counter ==
    /\ active_producers = NUM_PRODUCERS - Cardinality(HasDecremented)
    /\ active_producers >= 0
    /\ \A p \in Producers :
         /\ dec_result[p] # -1 <=> p \in HasDecremented
         /\ p \in HasDecremented =>
              /\ p_i[p] = num_sales[p]
              /\ \A i \in 1..num_sales[p] : put_count[<<p, i>>] = 1
    /\ active_producers = 0 =>
         /\ \A p \in Producers : ppc[p] \in {"fin_post", "fin_unlock", "done"}
         /\ n_put = SumTo(num_sales, NUM_PRODUCERS)

C12_Step ==
    /\ active_producers' <= active_producers
    /\ active_producers' < active_producers =>
         /\ active_producers' = active_producers - 1
         /\ \E p \in Producers :
              /\ ppc[p] = "fin_dec"
              /\ ppc'[p] # "fin_dec"
              /\ dec_result[p] = -1
              /\ dec_result'[p] = active_producers'
              /\ \A q \in Producers \ {p} : ppc'[q] = ppc[q]
    /\ active_producers = 0 => active_producers' = 0 /\ n_put' = n_put

C12_ActiveProducers == [](C12_Counter) /\ [][C12_Step]_vars

\* Two producers, both have decremented, every item was inserted before.
C12_Witness ==
    /\ NUM_PRODUCERS = 2
    /\ active_producers = 0
    /\ n_put = 2
    /\ dec_result[1] = 0
    /\ dec_result[2] = 1


(***************************************************************************)
(* C13: single consistency domain, in q1_1.c and q1_2.c.  Every read and   *)
(* every write of buffer, in_idx, out_idx, count and active_producers by a *)
(* producer or a consumer happens while that thread holds mutex, and at    *)
(* most one thread holds mutex at a time.                                  *)
(***************************************************************************)
\* Positions between a thread's pthread_mutex_lock (or the return of its
\* pthread_cond_wait) and its next pthread_mutex_unlock (or the start of its
\* next pthread_cond_wait): every statement that touches a shared field is
\* executed from one of these positions.
ProducerCritical == {"insert", "unlock", "fin_dec", "fin_post", "fin_unlock"}
ConsumerCritical == {"while", "check", "remove", "batch_read", "unlock", "exit_unlock"}

Holders ==
    {ProducerThread(p) : p \in {q \in Producers : ppc[q] \in ProducerCritical}}
        \cup {ConsumerThread(c) : c \in {d \in Consumers : cpc[d] \in ConsumerCritical}}

C13_OneHolder ==
    /\ Cardinality(Holders) <= 1
    /\ Holders = IF mutex = NoThread THEN {} ELSE {mutex}

\* A step that writes a shared field is a step of the mutex owner, taken from
\* one of its writing statements; a step from a statement that reads or
\* writes a shared field is taken by the mutex owner.
C13_AccessUnderMutex ==
    /\ <<buffer, in_idx, out_idx, count, active_producers>>'
          # <<buffer, in_idx, out_idx, count, active_producers>>
       => /\ mutex # NoThread
          /\ mutex' = mutex
          /\ mutex[1] = "producer" => ppc[mutex[2]] \in {"insert", "fin_dec"}
          /\ mutex[1] = "consumer" => cpc[mutex[2]] \in {"remove", "batch_read"}
    /\ \A p \in Producers :
         ppc[p] \in {"insert", "fin_dec"} /\ ppc'[p] # ppc[p] => mutex = ProducerThread(p)
    /\ \A c \in Consumers :
         /\ cpc[c] \in {"while", "check", "remove", "batch_read"}
         /\ <<cpc[c], c_k[c]>>' # <<cpc[c], c_k[c]>>
         => mutex = ConsumerThread(c)

C13_SingleDomain == [](C13_OneHolder) /\ [][C13_AccessUnderMutex]_vars

\* A consumer removes an item under the mutex while a producer, about to
\* enter its final section, and another consumer, its permit already taken,
\* both wait for the mutex.
C13_Witness ==
    /\ program = "q1_2"
    /\ \E c \in Consumers :
         /\ cpc[c] = "remove"
         /\ mutex = ConsumerThread(c)
         /\ \E d \in Consumers \ {c} : cpc[d] = "lock"
    /\ \E p \in Producers : ppc[p] = "fin_lock"


(***************************************************************************)
(* C14: a consumer exits only when the work is finished, in q1_1.c and     *)
(* q1_2.c.  When a consumer leaves its loop it holds the mutex and sees    *)
(* active_producers = 0 and count = 0; no consumer has left its loop while *)
(* a producer is still active or an item remains in the buffer.            *)
(***************************************************************************)
C14_ExitOnlyWhenFinished ==
    \A c \in Consumers :
        /\ cpc[c] = "exit_unlock" => mutex = ConsumerThread(c)
        /\ cpc[c] \in {"exit_unlock", "repost", "done"} =>
             /\ active_producers = 0
             /\ count = 0
             /\ unread = {}

\* A consumer of q1_2.c has just taken the exit branch, still holding the
\* mutex, after both items were removed.
C14_Witness ==
    /\ program = "q1_2"
    /\ n_take = 2
    /\ \E c \in Consumers : cpc[c] = "exit_unlock" /\ sales_processed[c] >= 1


(***************************************************************************)
(* The first scenario of the specification, run on q1_2.c: BUFFER_SIZE 2,  *)
(* one producer with three sales (amounts 10, 20, 30), one consumer.       *)
(***************************************************************************)
InitC15 ==
    /\ program = "q1_2"
    /\ BUFFER_SIZE = 2
    /\ NUM_PRODUCERS = 1
    /\ NUM_CONSUMERS = 1
    /\ num_sales = <<3>>
    /\ InitState
    /\ cpc = [c \in 1..NUM_CONSUMERS |-> "sem_wait"]

SpecC15 == InitC15 /\ [][NextQ12]_vars

\* Every thread that can take a step eventually takes one.
FairSpecC15 ==
    /\ SpecC15
    /\ \A p \in 1..MaxThreads : WF_vars(p \in Producers /\ q12_producer(p))
    /\ \A c \in 1..MaxThreads : WF_vars(c \in Consumers /\ q12_consumer(c))
    /\ WF_vars(q12_main)

\* The consumer has removed, in order, the first n_take amounts of 10, 20, 30,
\* each a stored item, and the buffer never holds more than 2 items.
C15_InOrder ==
    /\ count <= 2
    /\ n_take <= 3
    /\ sales_processed[1] = n_take
    /\ n_take >= 1 =>
         /\ last_take.value = 10 * n_take
         /\ last_take.seq = n_take
         /\ last_take.fresh
    /\ cpc[1] \in {"exit_unlock", "repost", "done"} => n_take = 3

\* The consumer is in sem_wait(&full_slots) and the semaphore is 0.
C15_ConsumerBlocked == cpc[1] = "sem_wait" /\ ~SemCanWait(full_slots)

(***************************************************************************)
(* C15 as claimed: in this scenario the consumer removes exactly 10, 20,   *)
(* 30, count never exceeds 2, and after removing the third item the        *)
(* consumer exits with no further blocking.                                *)
(***************************************************************************)
C15_NoFurtherBlocking ==
    /\ C15_InOrder
    /\ n_take = 3 => ~C15_ConsumerBlocked

\* C15 as the code has it: the consumer removes exactly 10, 20, 30 and count
\* never exceeds 2; after the third removal the consumer returns to
\* sem_wait(&full_slots) and is blocked there only as long as the producer
\* has not posted its shutdown signal; it then exits, having processed 3 sales.
C15_Scenario ==
    /\ [](C15_InOrder)
    /\ [](n_take = 3 /\ C15_ConsumerBlocked => shutdown_posts[1] = 0 /\ mpc = "join_producers")
    /\ <>[](cpc[1] = "done" /\ sales_processed[1] = 3)

\* The consumer has exited after removing 30 as its third item.
C15_Witness ==
    /\ cpc[1] = "done"
    /\ n_take = 3
    /\ last_take.value = 30
    /\ count = 0


(***************************************************************************)
(* The second scenario of the specification, run on q1_2.c: BUFFER_SIZE 1, *)
(* two producers with one sale each, two consumers.                        *)
(***************************************************************************)
InitC16 ==
    /\ program = "q1_2"
    /\ BUFFER_SIZE = 1
    /\ NUM_PRODUCERS = 2
    /\ NUM_CONSUMERS = 2
    /\ num_sales = <<1, 1>>
    /\ InitState
    /\ cpc = [c \in 1..NUM_CONSUMERS |-> "sem_wait"]

SpecC16 == InitC16 /\ [][NextQ12]_vars

\* Every thread that can take a step eventually takes one.
FairSpecC16 ==
    /\ SpecC16
    /\ \A p \in 1..MaxThreads : WF_vars(p \in Producers /\ q12_producer(p))
    /\ \A c \in 1..MaxThreads : WF_vars(c \in Consumers /\ q12_consumer(c))
    /\ WF_vars(q12_main)

(***************************************************************************)
(* C16: in this scenario, under every interleaving, the two consumers'     *)
(* sales_processed values sum to exactly 2 when they finish (each being 0, *)
(* 1 or 2, and the sum never above 2 on the way), and both consumers       *)
(* terminate.                                                              *)
(***************************************************************************)
C16_Scenario ==
    /\ [](/\ \A c \in Consumers : sales_processed[c] \in 0..2
          /\ sales_processed[1] + sales_processed[2] <= 2
          /\ sales_processed[1] + sales_processed[2] = n_take
          /\ AllConsumersDone => sales_processed[1] + sales_processed[2] = 2)
    /\ <>[](AllConsumersDone)

\* Both consumers have finished, one having processed both sales and the
\* other none.
C16_Witness ==
    /\ BUFFER_SIZE = 1
    /\ AllConsumersDone
    /\ sales_processed = <<0, 2>>
    /\ take_count[<<1, 1>>] = 1
    /\ take_count[<<2, 1>>] = 1


(***************************************************************************)
(* q1_1.c under fair scheduling.  A thread that can take a step eventually *)
(* takes one (weak fairness per thread).  Nothing more is assumed: the     *)
(* mutex is created with default attributes (q1_1.c, pthread_mutex_init    *)
(* with NULL), so a thread waiting in pthread_mutex_lock has no promise of *)
(* ever being the one that obtains it, and pthread_cond_wait is never      *)
(* obliged to return without a signal (the spurious wakeup has no          *)
(* fairness).                                                              *)
(***************************************************************************)
q11_consumer_steps(c) ==
    \/ q11_consumer_lock(c)
    \/ q11_consumer_while(c)
    \/ q11_consumer_cond_relock(c)
    \/ q11_consumer_check(c)
    \/ q11_consumer_batch_read(c)
    \/ q11_consumer_unlock(c)
    \/ q11_consumer_post(c)
    \/ q11_consumer_exit_unlock(c)

FairSpecQ11 ==
    /\ SpecQ11
    /\ \A p \in 1..MaxThreads : WF_vars(p \in Producers /\ q11_producer(p))
    /\ \A c \in 1..MaxThreads : WF_vars(c \in Consumers /\ q11_consumer_steps(c))
    /\ WF_vars(q11_main)

\* A starvation-free mutex: a thread waiting in pthread_mutex_lock (or
\* re-acquiring the mutex inside pthread_cond_wait) obtains it if the mutex
\* is released again and again.  POSIX does not promise this for the
\* default mutex of q1_1.c; it is an assumption, used only as a hypothesis.
MutexStarvationFree ==
    /\ \A p \in 1..MaxThreads :
         SF_vars(p \in Producers /\ (q11_producer_lock(p) \/ q11_producer_fin_lock(p)))
    /\ \A c \in 1..MaxThreads :
         SF_vars(c \in Consumers /\ (q11_consumer_lock(c) \/ q11_consumer_cond_relock(c)))

\* pthread_cond_wait returns without a signal only finitely many times.
SpuriousWakeup == \E c \in Consumers : q11_consumer_spurious_wakeup(c)
SpuriousWakeupsCease == <>[][~SpuriousWakeup]_vars

(***************************************************************************)
(* C17 as stated: q1_1.c terminates under fair scheduling, whatever        *)
(* NUM_PRODUCERS, BUFFER_SIZE and the sale counts: every producer and the  *)
(* manager eventually finish.  With weak fairness alone this fails: the    *)
(* manager may wake spuriously, re-acquire the mutex and wait again for    *)
(* ever while a producer never wins pthread_mutex_lock.                    *)
(***************************************************************************)
C17_Termination == <>[](AllProducersDone /\ AllConsumersDone /\ mpc = "done")

(***************************************************************************)
(* C17, amended: a weakly fair behaviour of q1_1.c in which the mutex is   *)
(* starvation-free, or in which the spurious wakeups of pthread_cond_wait  *)
(* cease, ends with every producer, the manager and main finished.  No     *)
(* signal or broadcast on buffer_full_cond is lost in a way that leaves    *)
(* the manager waiting, or a producer blocked on empty_slots, for ever:    *)
(* the only behaviours that do not terminate are those in which a thread   *)
(* starves on the mutex behind endless spurious wakeups.                   *)
(***************************************************************************)
C17_TerminationUnlessStarved ==
    (MutexStarvationFree \/ SpuriousWakeupsCease) => C17_Termination

\* The buffer is full, a producer is blocked on empty_slots and the manager,
\* woken from its wait, is about to re-acquire the mutex.
C17_Witness ==
    /\ program = "q1_1"
    /\ count = BUFFER_SIZE
    /\ empty_slots = 0
    /\ \E p \in Producers : ppc[p] = "sem_wait"
    /\ cpc[1] = "cond_relock"


(***************************************************************************)
(* C18: in q1_1.c the manager processes a batch only when the buffer is    *)
(* completely full or no producer is active.  Every batch taken while      *)
(* active_producers > 0 has exactly BUFFER_SIZE items, and each batch      *)
(* takes all the items present: count is 0 before the mutex is released.   *)
(***************************************************************************)
C18_FullBatches ==
    program = "q1_1" =>
        /\ last_batch.active > 0 => last_batch.size = BUFFER_SIZE
        /\ \A c \in Consumers :
             /\ cpc[c] = "batch_read" =>
                  /\ mutex = ConsumerThread(c)
                  /\ items_consumed[c] = count
                  /\ count > 0
                  /\ count = BUFFER_SIZE \/ active_producers = 0
                  /\ Cardinality(unread) = count - c_k[c]
             /\ cpc[c] = "unlock" =>
                  /\ mutex = ConsumerThread(c)
                  /\ count = 0
                  /\ unread = {}
                  /\ last_batch.size = items_consumed[c]
                  /\ last_batch.active = active_producers

\* The manager has just read a batch of 2 from a full buffer of 2 slots while
\* a producer was still active, and has not released the mutex yet.
C18_Witness ==
    /\ program = "q1_1"
    /\ BUFFER_SIZE = 2
    /\ cpc[1] = "unlock"
    /\ last_batch = [size |-> 2, active |-> 1]


(***************************************************************************)
(* main() from its first statement, for any value of the #defines that     *)
(* compiles, BUFFER_SIZE 0 and NUM_CONSUMERS 0 included (a negative value  *)
(* makes `double buffer[BUFFER_SIZE]` or `pthread_t consumers[...]` fail   *)
(* to compile).  The mutex and the semaphores are initialised; no thread   *)
(* exists yet.  Neither main() tests BUFFER_SIZE or NUM_CONSUMERS: the     *)
(* next statements are the pthread_create loops.                           *)
(***************************************************************************)
InitC19 ==
    /\ program \in {"q1_1", "q1_2"}
    /\ BUFFER_SIZE \in 0..MaxBufferSize
    /\ NUM_CONSUMERS \in 0..(IF program = "q1_1" THEN 1 ELSE MaxThreads - 1)
    /\ NUM_PRODUCERS \in 1..(MaxThreads - 1)
    /\ NUM_PRODUCERS + NUM_CONSUMERS <= MaxThreads
    /\ num_sales \in [1..NUM_PRODUCERS -> 1..MaxItems]
    /\ SumTo(num_sales, NUM_PRODUCERS) <= MaxItems
    /\ InitGlobals
    /\ ppc = [p \in 1..NUM_PRODUCERS |-> "new"]
    /\ cpc = [c \in 1..NUM_CONSUMERS |-> "new"]
    /\ mpc = "create"

\* main is in its first creation loop as long as a producer is not created.
CreatingProducers == \E p \in Producers : ppc[p] = "new"

\* for (i < NUM_PRODUCERS) { ...; pthread_create(&producers[i], NULL, producer, args); }
\* one iteration, i = m_k: the created producer can run from now on.
main_create_producer ==
    /\ mpc = "create"
    /\ CreatingProducers
    /\ ppc' = [ppc EXCEPT ![m_k + 1] = LoopHead(0, num_sales[m_k + 1])]
    /\ m_k' = MainIndexNext(NUM_PRODUCERS)
    /\ mpc' = IF m_k + 1 < NUM_PRODUCERS \/ 0 < NUM_CONSUMERS
              THEN "create" ELSE "join_producers"
    /\ UNCHANGED <<cfgVars, leibVars, bufVars, mutex, empty_slots, full_slots,
                   active_producers, cond_waiters, p_i, p_k, cpc,
                   sales_processed, items_consumed, c_k, histVars>>

\* for (i < NUM_CONSUMERS) { ...; pthread_create(&consumers[i], NULL, consumer, ...); }
\* one iteration, i = m_k.
main_create_consumer ==
    /\ mpc = "create"
    /\ ~CreatingProducers
    /\ cpc' = [cpc EXCEPT ![m_k + 1] =
                 IF program = "q1_1" THEN "lock" ELSE "sem_wait"]
    /\ m_k' = MainIndexNext(NUM_CONSUMERS)
    /\ mpc' = MainLoopNext(NUM_CONSUMERS, "create", "join_producers")
    /\ UNCHANGED <<cfgVars, leibVars, bufVars, mutex, empty_slots, full_slots,
                   active_producers, cond_waiters, ppc, p_i, p_k,
                   sales_processed, items_consumed, c_k, histVars>>

main_create_threads ==
    \/ main_create_producer
    \/ main_create_consumer

NextC19 ==
    \/ main_create_threads
    \/ Next

SpecC19 == InitC19 /\ [][NextC19]_vars

InvalidConfig == BUFFER_SIZE <= 0 \/ NUM_CONSUMERS <= 0
WorkersStarted ==
    \/ \E p \in Producers : ppc[p] # "new"
    \/ \E c \in Consumers : cpc[c] # "new"

(***************************************************************************)
(* C19 as claimed: a configuration with buffer capacity <= 0 or consumer   *)
(* count <= 0 is rejected before any worker thread is started, so no run   *)
(* of such a configuration has its workers started.                        *)
(***************************************************************************)
C19_RejectedBeforeStart == InvalidConfig => ~WorkersStarted

\* What the programs do instead: with no consumer, the workers are started,
\* the producers fill the buffer, and one of them is then blocked on
\* empty_slots with nothing left that could ever post it.
C19_BlockedMidRun ==
    /\ InvalidConfig
    /\ WorkersStarted
    /\ BUFFER_SIZE >= 1
    /\ count = BUFFER_SIZE
    /\ \E p \in Producers : ppc[p] = "sem_wait" /\ ~SemCanWait(empty_slots)
    /\ mpc = "join_producers"
    /\ ~ENABLED NextC19


(***************************************************************************)
(* prod-cons.c : the skeleton of the same program.  Its producer reads its *)
(* argument and returns; its consumer is the empty loop                    *)
(*     while (active_producers > 0 || count > 0) { }                       *)
(* over two plain (non-volatile, non-atomic) ints that no statement of the *)
(* file writes.  The loop has no side effect and a non-constant condition, *)
(* so a compiler may assume that it terminates (C11 6.8.5p6) and drop it:  *)
(* both builds exist, and `program` tells which one runs.                  *)
(***************************************************************************)
LoopKept == program = "prod_cons"
LoopElided == program = "prod_cons_loop_elided"
ProdCons == LoopKept \/ LoopElided

\* main() up to the sem_init calls: no thread exists yet.
InitProdCons ==
    /\ program \in {"prod_cons", "prod_cons_loop_elided"}
    /\ BUFFER_SIZE \in 1..MaxBufferSize
    /\ NUM_CONSUMERS \in 1..(MaxThreads - 1)
    /\ NUM_PRODUCERS \in 1..(MaxThreads - NUM_CONSUMERS)
    /\ num_sales = [p \in 1..NUM_PRODUCERS |-> 0]
    /\ InitGlobals
    /\ ppc = [p \in 1..NUM_PRODUCERS |-> "new"]
    /\ cpc = [c \in 1..NUM_CONSUMERS |-> "new"]
    /\ mpc = "create_producers"

\* args->num_sales = 0; pthread_create(&producers[i], NULL, producer, args);
pc_main_create_producer ==
    /\ ProdCons
    /\ mpc = "create_producers"
    /\ ppc' = [ppc EXCEPT ![m_k + 1] = "start"]
    /\ mpc' = MainLoopNext(NUM_PRODUCERS, "create_producers", "create_consumers")
    /\ m_k' = MainIndexNext(NUM_PRODUCERS)
    /\ UNCHANGED <<cfgVars, leibVars, bufVars, mutex, empty_slots, full_slots,
                   active_producers, cond_waiters, p_i, p_k, cpc,
                   sales_processed, items_consumed, c_k, histVars>>

\* pthread_create(&consumers[i], NULL, consumer, NULL);
\* The new thread starts at the loop, or past it in the build without it.
pc_main_create_consumer ==
    /\ ProdCons
    /\ mpc = "create_consumers"
    /\ cpc' = [cpc EXCEPT ![m_k + 1] = IF LoopElided THEN "return" ELSE "while"]
    /\ mpc' = MainLoopNext(NUM_CONSUMERS, "create_consumers", "join_producers")
    /\ m_k' = MainIndexNext(NUM_CONSUMERS)
    /\ UNCHANGED <<cfgVars, leibVars, bufVars, mutex, empty_slots, full_slots,
                   active_producers, cond_waiters, ppc, p_i, p_k,
                   sales_processed, items_consumed, c_k, histVars>>

\* pthread_join(producers[i], NULL);
pc_main_join_producer ==
    /\ ProdCons
    /\ mpc = "join_producers"
    /\ ppc[m_k + 1] = "done"
    /\ mpc' = MainLoopNext(NUM_PRODUCERS, "join_producers", "join_consumers")
    /\ m_k' = MainIndexNext(NUM_PRODUCERS)
    /\ UNCHANGED <<cfgVars, leibVars, bufVars, mutex, empty_slots, full_slots,
                   active_producers, cond_waiters, ppc, p_i, p_k, cpc,
                   sales_processed, items_consumed, c_k, histVars>>

\* pthread_join(consumers[i], NULL);
pc_main_join_consumer ==
    /\ ProdCons
    /\ mpc = "join_consumers"
    /\ cpc[m_k + 1] = "done"
    /\ mpc' = MainLoopNext(NUM_CONSUMERS, "join_consumers", "destroy")
    /\ m_k' = MainIndexNext(NUM_CONSUMERS)
    /\ UNCHANGED <<cfgVars, leibVars, bufVars, mutex, empty_slots, full_slots,
                   active_producers, cond_waiters, ppc, p_i, p_k, cpc,
                   sales_processed, items_consumed, c_k, histVars>>

\* pthread_mutex_destroy; pthread_cond_destroy; sem_destroy x 2; printf; return 0;
pc_main_destroy ==
    /\ ProdCons
    /\ mpc = "destroy"
    /\ mpc' = "done"
    /\ UNCHANGED <<cfgVars, leibVars, bufVars, mutex, empty_slots, full_slots,
                   active_producers, cond_waiters, ppc, p_i, p_k, cpc,
                   sales_processed, items_consumed, c_k, m_k, histVars>>

\* int n = *((int *)args);   and the end of the function.  n is a local that
\* nothing reads; active_producers is left as it is.
pc_producer(p) ==
    /\ ProdCons
    /\ ppc[p] = "start"
    /\ ppc' = [ppc EXCEPT ![p] = "done"]
    /\ UNCHANGED <<cfgVars, leibVars, bufVars, mutex, empty_slots, full_slots,
                   active_producers, cond_waiters, p_i, p_k, cpc,
                   sales_processed, items_consumed, c_k, mpc, m_k, histVars>>

\* while (active_producers > 0 || count > 0)
StillWork(ap, cnt) == ap > 0 \/ cnt > 0

pc_consumer_while(c) ==
    /\ ProdCons
    /\ cpc[c] = "while"
    /\ cpc' = [cpc EXCEPT ![c] =
                 IF StillWork(active_producers, count) THEN "body" ELSE "return"]
    /\ UNCHANGED <<cfgVars, leibVars, bufVars, mutex, empty_slots, full_slots,
                   active_producers, cond_waiters, ppc, p_i, p_k,
                   sales_processed, items_consumed, c_k, mpc, m_k, histVars>>

\* { }   the empty body, and back to the test
pc_consumer_body(c) ==
    /\ ProdCons
    /\ cpc[c] = "body"
    /\ cpc' = [cpc EXCEPT ![c] = "while"]
    /\ UNCHANGED <<cfgVars, leibVars, bufVars, mutex, empty_slots, full_slots,
                   active_producers, cond_waiters, ppc, p_i, p_k,
                   sales_processed, items_consumed, c_k, mpc, m_k, histVars>>

\* the end of the function
pc_consumer_return(c) ==
    /\ ProdCons
    /\ cpc[c] = "return"
    /\ cpc' = [cpc EXCEPT ![c] = "done"]
    /\ UNCHANGED <<cfgVars, leibVars, bufVars, mutex, empty_slots, full_slots,
                   active_producers, cond_waiters, ppc, p_i, p_k,
                   sales_processed, items_consumed, c_k, mpc, m_k, histVars>>

pc_consumer(c) ==
    \/ pc_consumer_while(c)
    \/ pc_consumer_body(c)
    \/ pc_consumer_return(c)

pc_main ==
    \/ pc_main_create_producer
    \/ pc_main_create_consumer
    \/ pc_main_join_producer
    \/ pc_main_join_consumer
    \/ pc_main_destroy

NextProdCons ==
    \/ pc_main_create_producer
    \/ pc_main_create_consumer
    \/ pc_main_join_producer
    \/ pc_main_join_consumer
    \/ pc_main_destroy
    \/ \E p \in Producers : pc_producer(p)
    \/ \E c \in Consumers : pc_consumer_while(c)
    \/ \E c \in Consumers : pc_consumer_body(c)
    \/ \E c \in Consumers : pc_consumer_return(c)

SpecProdCons == InitProdCons /\ [][NextProdCons]_vars

\* Every thread that can take a step eventually takes one.
FairSpecProdCons ==
    /\ SpecProdCons
    /\ \A p \in 1..MaxThreads : WF_vars(p \in Producers /\ pc_producer(p))
    /\ \A c \in 1..MaxThreads : WF_vars(c \in Consumers /\ pc_consumer(c))
    /\ WF_vars(pc_main)

(***************************************************************************)
(* C20 as claimed: in prod-cons.c, once all producers have finished, every *)
(* consumer eventually leaves its loop and terminates, main's joins return *)
(* and the program reaches its final teardown.                             *)
(***************************************************************************)
C20_ConsumersTerminate ==
    AllProducersDone ~> (AllConsumersDone /\ mpc = "done")

\* What the build that keeps the loop does: every producer has returned,
\* active_producers is still NUM_PRODUCERS, a consumer is inside its loop
\* and main waits in pthread_join for it.
C20_SpinningForever ==
    /\ LoopKept
    /\ AllProducersDone
    /\ active_producers = NUM_PRODUCERS
    /\ \E c \in Consumers : cpc[c] = "body"
    /\ mpc = "join_consumers"


(***************************************************************************)
(* src/leibniz : q2_1.c and q2_2.c.  The two files have the same           *)
(* statements and differ only in #define NUM_THREADS (2 and 8).  main      *)
(* gives worker i the start term i * PARTIAL_NUM_TERMS; each worker sums   *)
(* PARTIAL_NUM_TERMS terms of the Leibniz series and adds 4 * sum to the   *)
(* global result under the mutex.                                          *)
(***************************************************************************)
MaxSize == 5
MaxWorkers == 3

\* Prod-cons variables, which these programs do not have.
NoProdCons ==
    /\ BUFFER_SIZE = 0
    /\ NUM_PRODUCERS = 0
    /\ NUM_CONSUMERS = 0
    /\ num_sales = << >>
    /\ buffer = << >>
    /\ count = 0
    /\ in_idx = 0
    /\ out_idx = 0
    /\ empty_slots = 0
    /\ full_slots = 0
    /\ active_producers = 0
    /\ cond_waiters = {}
    /\ ppc = << >>
    /\ p_i = << >>
    /\ p_k = << >>
    /\ cpc = << >>
    /\ sales_processed = << >>
    /\ items_consumed = << >>
    /\ c_k = << >>
    /\ slot_tag = << >>
    /\ unread = {}
    /\ slot_seq = << >>
    /\ n_put = 0
    /\ n_take = 0
    /\ put_count = << >>
    /\ take_count = << >>
    /\ last_take = NoTake
    /\ shutdown_posts = << >>
    /\ reposts = << >>
    /\ dec_result = << >>
    /\ last_batch = [size |-> 0, active |-> 0]
    /\ batch_total = 0

prodConsVars == <<BUFFER_SIZE, NUM_PRODUCERS, NUM_CONSUMERS, num_sales, bufVars,
                  empty_slots, full_slots, active_producers, cond_waiters, ppc,
                  p_i, p_k, cpc, sales_processed, items_consumed, c_k, histVars>>

Workers == 1..NUM_THREADS
WorkerThread(t) == <<"worker", t>>

\* C int: 32 bits, two's complement.
INT_MAX == 2147483647
INT_MIN == -INT_MAX - 1

\* x + y on two ints leaves the int range.
AddOverflows(x, y) ==
    \/ x > 0 /\ y > 0 /\ x > INT_MAX - y
    \/ x < 0 /\ y < 0 /\ x < INT_MIN - y

\* The 32-bit sum of two ints: x + y, wrapped around when it leaves the range.
Add32(x, y) ==
    IF x > 0 /\ y > 0 /\ x > INT_MAX - y THEN (x + INT_MIN) + (y + INT_MIN)
    ELSE IF x < 0 /\ y < 0 /\ x < INT_MIN - y THEN (x - INT_MIN) + (y - INT_MIN)
    ELSE x + y

\* x * n for a small multiplier n >= 0, as n additions.
RECURSIVE Mul32(_, _)
Mul32(x, n) == IF n = 0 THEN 0 ELSE Add32(Mul32(x, n - 1), x)

RECURSIVE MulOverflows(_, _)
MulOverflows(x, n) ==
    IF n = 0 THEN FALSE
    ELSE MulOverflows(x, n - 1) \/ AddOverflows(Mul32(x, n - 1), x)

\* #define PARTIAL_NUM_TERMS ((SIZE) / (NUM_THREADS))
PARTIAL_NUM_TERMS == SIZE \div NUM_THREADS

\* signal / (2 * k + 1), in sixtieths: the long double quotient, kept to a
\* fixed number of fractional digits.
LeibnizTerm(sig, den) ==
    IF den > 0 THEN sig * (60 \div den)
    ELSE IF den < 0 THEN -sig * (60 \div (-den))
    ELSE 0

\* main() has initialised the mutex; no worker exists yet.
InitLeibniz ==
    /\ SIZE \in 1..MaxSize
    /\ NUM_THREADS \in 1..MaxWorkers
    /\ NoProdCons
    /\ mutex = NoThread
    /\ mpc = "create"
    /\ m_k = 0
    /\ result = 0
    /\ tpc = [t \in 1..NUM_THREADS |-> "new"]
    /\ first_therm = [t \in 1..NUM_THREADS |-> 0]
    /\ num_terms = [t \in 1..NUM_THREADS |-> 0]
    /\ t_k = [t \in 1..NUM_THREADS |-> 0]
    /\ signal = [t \in 1..NUM_THREADS |-> 0]
    /\ pi_approximation = [t \in 1..NUM_THREADS |-> 0]
    /\ sum = [t \in 1..NUM_THREADS |-> 0]
    /\ reg = [t \in 1..NUM_THREADS |-> 0]
    /\ denominator = [t \in 1..NUM_THREADS |-> [wide |-> FALSE, int32 |-> 0]]
    /\ evaluated = [x \in 0..(SIZE - 1) |-> 0]
    /\ int_overflow = FALSE

InitQ2 ==
    /\ program = "q2"
    /\ InitLeibniz


\* One iteration of main's creation loop, i = m_k:
\*   int *init = malloc(sizeof(int)); *init = i * PARTIAL_NUM_TERMS;
\*   int terms_to_compute = PARTIAL_NUM_TERMS;
\*   if (i == NUM_THREADS - 1) terms_to_compute += SIZE % NUM_THREADS;
\*   pthread_create(&thread[i], NULL, partialProcessing, (void *)init);
\* terms_to_compute is a local of the loop body that is passed to nobody; the
\* worker receives *init only, which it copies into first_therm.
q2_main_create ==
    /\ program = "q2"
    /\ mpc = "create"
    /\ first_therm' = [first_therm EXCEPT ![m_k + 1] = Mul32(PARTIAL_NUM_TERMS, m_k)]
    /\ int_overflow' = (int_overflow \/ MulOverflows(PARTIAL_NUM_TERMS, m_k))
    /\ tpc' = [tpc EXCEPT ![m_k + 1] = "start"]
    /\ mpc' = MainLoopNext(NUM_THREADS, "create", "join")
    /\ m_k' = MainIndexNext(NUM_THREADS)
    /\ UNCHANGED <<program, prodConsVars, mutex, SIZE, NUM_THREADS, result,
                   num_terms, t_k, signal, pi_approximation, sum, reg,
                   denominator, evaluated>>

\* pthread_join(thread[i], NULL);
q2_main_join ==
    /\ program = "q2"
    /\ mpc = "join"
    /\ tpc[m_k + 1] = "done"
    /\ mpc' = MainLoopNext(NUM_THREADS, "join", "print")
    /\ m_k' = MainIndexNext(NUM_THREADS)
    /\ UNCHANGED <<program, prodConsVars, mutex, leibVars>>

\* pthread_mutex_destroy(&mutex); printf("... %.15Lf", result); return EXIT_SUCCESS;
q2_main_print ==
    /\ program = "q2"
    /\ mpc = "print"
    /\ mpc' = "done"
    /\ UNCHANGED <<program, prodConsVars, mutex, m_k, leibVars>>

\* partialProcessing: first_therm = *((int *)args); free(args); then the
\* entry of partialFormula(first_therm):
\*   const int num_terms = start_term + PARTIAL_NUM_TERMS;
\*   long double pi_approximation = 0; double signal = 1.0; int k = start_term;
q2_worker_start(t) ==
    /\ program = "q2"
    /\ tpc[t] = "start"
    /\ num_terms' = [num_terms EXCEPT ![t] = Add32(first_therm[t], PARTIAL_NUM_TERMS)]
    /\ int_overflow' = (int_overflow \/ AddOverflows(first_therm[t], PARTIAL_NUM_TERMS))
    /\ pi_approximation' = [pi_approximation EXCEPT ![t] = 0]
    /\ signal' = [signal EXCEPT ![t] = 1]
    /\ t_k' = [t_k EXCEPT ![t] = first_therm[t]]
    /\ tpc' = [tpc EXCEPT ![t] = "loop"]
    /\ UNCHANGED <<program, prodConsVars, mutex, mpc, m_k, SIZE, NUM_THREADS,
                   result, first_therm, sum, reg, denominator, evaluated>>

\* The value of the int expression 2 * k + 1.  When it leaves the int range
\* the behaviour is undefined: the build either wraps it to 32 bits or has
\* evaluated it in a wider register, keeping the exact value (whose low 32
\* bits are int32).
TwoKPlusOne(kk) ==
    IF AddOverflows(kk, kk) \/ AddOverflows(Add32(kk, kk), 1)
    THEN {[wide |-> w, int32 |-> Add32(Add32(kk, kk), 1)] : w \in BOOLEAN}
    ELSE {[wide |-> FALSE, int32 |-> Add32(Add32(kk, kk), 1)]}

\* The denominator is the positive number 2k+1.
Positive(den) == den.wide \/ den.int32 > 0

\* for (int k = start_term; k < num_terms; k++) {
\*     pi_approximation += signal / (2 * k + 1); signal *= -1.0; }
\* one iteration, or the exit of the loop with `return pi_approximation`
\* assigned to sum.
q2_worker_loop(t) ==
    /\ program = "q2"
    /\ tpc[t] = "loop"
    /\ IF t_k[t] < num_terms[t]
       THEN /\ \E den \in TwoKPlusOne(t_k[t]) :
                 /\ denominator' = [denominator EXCEPT ![t] = den]
                 /\ pi_approximation' =
                      [pi_approximation EXCEPT ![t] =
                         @ + (IF den.wide THEN 0
                              ELSE LeibnizTerm(signal[t], den.int32))]
            /\ int_overflow' =
                 (int_overflow \/ AddOverflows(t_k[t], t_k[t])
                               \/ AddOverflows(Add32(t_k[t], t_k[t]), 1))
            /\ signal' = [signal EXCEPT ![t] = -signal[t]]
            /\ t_k' = [t_k EXCEPT ![t] = t_k[t] + 1]
            /\ evaluated' = IF t_k[t] \in DOMAIN evaluated
                            THEN [evaluated EXCEPT ![t_k[t]] = @ + 1]
                            ELSE evaluated
            /\ UNCHANGED <<tpc, sum>>
       ELSE /\ sum' = [sum EXCEPT ![t] = pi_approximation[t]]
            /\ tpc' = [tpc EXCEPT ![t] = "lock"]
            /\ UNCHANGED <<denominator, pi_approximation, int_overflow, signal,
                           t_k, evaluated>>
    /\ UNCHANGED <<program, prodConsVars, mutex, mpc, m_k, SIZE, NUM_THREADS,
                   result, first_therm, num_terms, reg>>


\* A lock that does not wait for the owner to release the mutex.
q2_worker_lock_Barge(t) ==
    /\ program = "q2"
    /\ tpc[t] = "lock"
    /\ mutex' = WorkerThread(t)
    /\ tpc' = [tpc EXCEPT ![t] = "load"]
    /\ UNCHANGED <<program, prodConsVars, mpc, m_k, SIZE, NUM_THREADS, result,
                   first_therm, num_terms, t_k, signal, pi_approximation, sum,
                   reg, denominator, evaluated, int_overflow>>

\* pthread_mutex_lock(&mutex);
q2_worker_lock(t) ==
    /\ program = "q2"
    /\ tpc[t] = "lock"
    /\ mutex = NoThread
    /\ mutex' = WorkerThread(t)
    /\ tpc' = [tpc EXCEPT ![t] = "load"]
    /\ UNCHANGED <<program, prodConsVars, mpc, m_k, SIZE, NUM_THREADS, result,
                   first_therm, num_terms, t_k, signal, pi_approximation, sum,
                   reg, denominator, evaluated, int_overflow>>

\* result += 4 * sum;  the read of result ...
q2_worker_load(t) ==
    /\ program = "q2"
    /\ tpc[t] = "load"
    /\ reg' = [reg EXCEPT ![t] = result]
    /\ tpc' = [tpc EXCEPT ![t] = "store"]
    /\ UNCHANGED <<program, prodConsVars, mutex, mpc, m_k, SIZE, NUM_THREADS,
                   result, first_therm, num_terms, t_k, signal,
                   pi_approximation, sum, denominator, evaluated, int_overflow>>

\* ... and the write of result + 4 * sum.
q2_worker_store(t) ==
    /\ program = "q2"
    /\ tpc[t] = "store"
    /\ result' = reg[t] + 4 * sum[t]
    /\ tpc' = [tpc EXCEPT ![t] = "unlock"]
    /\ UNCHANGED <<program, prodConsVars, mutex, mpc, m_k, SIZE, NUM_THREADS,
                   first_therm, num_terms, t_k, signal, pi_approximation, sum,
                   reg, denominator, evaluated, int_overflow>>

\* pthread_mutex_unlock(&mutex); return NULL;
q2_worker_unlock(t) ==
    /\ program = "q2"
    /\ tpc[t] = "unlock"
    /\ mutex' = NoThread
    /\ tpc' = [tpc EXCEPT ![t] = "done"]
    /\ UNCHANGED <<program, prodConsVars, mpc, m_k, SIZE, NUM_THREADS, result,
                   first_therm, num_terms, t_k, signal, pi_approximation, sum,
                   reg, denominator, evaluated, int_overflow>>

q2_worker(t) ==
    \/ q2_worker_start(t)
    \/ q2_worker_loop(t)
    \/ q2_worker_lock(t)
    \/ q2_worker_load(t)
    \/ q2_worker_store(t)
    \/ q2_worker_unlock(t)

q2_main ==
    \/ q2_main_create
    \/ q2_main_join
    \/ q2_main_print

NextQ2 ==
    \/ q2_main
    \/ \E t \in Workers : q2_worker(t)

SpecQ2 == InitQ2 /\ [][NextQ2]_vars


\* The workers whose `result += 4 * sum` has been executed.
Added == {t \in Workers : tpc[t] \in {"unlock", "done"}}

\* 4 * sum summed over the workers 1..n that are in the set ts.
RECURSIVE Contributions(_, _)
Contributions(n, ts) ==
    IF n = 0 THEN 0
    ELSE Contributions(n - 1, ts) + (IF n \in ts THEN 4 * sum[n] ELSE 0)

\* C21 (q2_1.c, q2_2.c): no update of result is lost.  At every moment
\* result is the sum of 4 * sum over the workers that have executed their
\* addition, so once all workers have returned it is the sum of all
\* contributions; and result changes only by the step of a worker that owns
\* the mutex and adds its own 4 * sum, which it does once.
C21_ResultIsSum ==
    /\ program = "q2" =>
         /\ result = Contributions(NUM_THREADS, Added)
         /\ (\A t \in Workers : tpc[t] = "done") =>
              result = Contributions(NUM_THREADS, Workers)

C21_Step ==
    (program = "q2" /\ result' # result) =>
        \E t \in Workers :
            /\ mutex = WorkerThread(t)
            /\ tpc[t] = "store" /\ tpc'[t] = "unlock"
            /\ result' = result + 4 * sum[t]

C21_NoLostUpdate == [](C21_ResultIsSum) /\ [][C21_Step]_vars

\* Three workers have all returned, each one having added a different,
\* non-zero contribution.
C21_Witness ==
    /\ program = "q2"
    /\ NUM_THREADS = 3
    /\ \A t \in Workers : tpc[t] = "done" /\ sum[t] # 0
    /\ sum[1] # sum[2] /\ sum[2] # sum[3]
    /\ result = 4 * sum[1] + 4 * sum[2] + 4 * sum[3]


\* C22 (q2_1.c, q2_2.c): once every worker has returned, each term index of
\* 0..SIZE-1 has been evaluated exactly once, the remainder of the division
\* SIZE / NUM_THREADS included.
C22_ExactCover ==
    (program = "q2" /\ \A t \in Workers : tpc[t] = "done") =>
        \A x \in 0..(SIZE - 1) : evaluated[x] = 1

\* All workers have returned, every worker has evaluated PARTIAL_NUM_TERMS
\* terms, and the SIZE % NUM_THREADS last indices were evaluated by nobody.
C22_RemainderSkipped ==
    /\ program = "q2"
    /\ SIZE % NUM_THREADS # 0
    /\ \A t \in Workers : tpc[t] = "done" /\ t_k[t] - first_therm[t] = PARTIAL_NUM_TERMS
    /\ \A x \in 0..(SIZE - 1) :
          evaluated[x] = IF x < NUM_THREADS * PARTIAL_NUM_TERMS THEN 1 ELSE 0


\* C23 (q1_1.c, q1_2.c): semaphores are waited on before the mutex is locked
\* and posted after it is unlocked.  A thread at a sem_wait, or at the
\* sem_post that follows its unlock, does not own the mutex; a put is
\* sem_wait(&empty_slots), lock, insertion, unlock, sem_post(&full_slots) in
\* that order, and a take of q1_2.c is sem_wait(&full_slots), lock, ...,
\* unlock, sem_post(&empty_slots).
C23_NotHolding ==
    program \in {"q1_1", "q1_2"} =>
        /\ \A p \in Producers :
              ppc[p] \in {"sem_wait", "lock", "sem_post"} => mutex # ProducerThread(p)
        /\ \A c \in Consumers :
              cpc[c] \in {"sem_wait", "lock", "sem_post", "post"} => mutex # ConsumerThread(c)

C23_Step ==
    program \in {"q1_1", "q1_2"} =>
        /\ \A p \in Producers :
              ppc'[p] # ppc[p] =>
                  /\ ppc[p] = "sem_wait" =>
                        ppc'[p] = "lock" /\ empty_slots' = empty_slots - 1
                  /\ ppc[p] = "lock" =>
                        ppc'[p] = "insert" /\ mutex = NoThread /\ mutex' = ProducerThread(p)
                  /\ ppc[p] = "insert" => ppc'[p] = "unlock" /\ count' = count + 1
                  /\ ppc[p] = "unlock" => ppc'[p] = "sem_post" /\ mutex' = NoThread
                  /\ ppc[p] = "sem_post" => full_slots' = full_slots + 1
        /\ \A c \in Consumers :
              (program = "q1_2" /\ cpc'[c] # cpc[c]) =>
                  /\ cpc[c] = "sem_wait" =>
                        cpc'[c] = "lock" /\ full_slots' = full_slots - 1
                  /\ cpc[c] = "lock" =>
                        cpc'[c] = "check" /\ mutex = NoThread /\ mutex' = ConsumerThread(c)
                  /\ cpc[c] = "unlock" => cpc'[c] = "sem_post" /\ mutex' = NoThread
                  /\ cpc[c] = "sem_post" =>
                        cpc'[c] = "sem_wait" /\ empty_slots' = empty_slots + 1

C23_WaitThenLock == [](C23_NotHolding) /\ [][C23_Step]_vars

\* A consumer is blocked in sem_wait(&full_slots) and a producer is blocked
\* in sem_wait(&empty_slots) while a third thread is inside the critical
\* section.
C23_Witness ==
    /\ program = "q1_2"
    /\ \E c \in Consumers : cpc[c] = "sem_wait" /\ full_slots = 0
    /\ \E p \in Producers : ppc[p] = "sem_wait" /\ empty_slots = 0
    /\ mutex # NoThread


\* The consumers of q1_2.c that have returned from sem_wait(&full_slots) and
\* have neither removed an item nor re-posted yet: each holds one permit.
PermitHolders == {c \in Consumers : cpc[c] \in {"lock", "check", "exit_unlock", "repost"}}

\* No producer is active, the buffer is empty and a consumer is still running.
ShutdownPending ==
    /\ program = "q1_2"
    /\ active_producers = 0
    /\ count = 0
    /\ \E c \in Consumers : cpc[c] # "done"

\* C24 as stated: whenever no producer is active, the buffer is empty and a
\* consumer has not exited, full_slots >= 1 or some consumer holds a permit
\* it has not re-posted yet.
C24_WakeupAlways ==
    ShutdownPending => (full_slots >= 1 \/ PermitHolders # {})

\* The last producer has executed active_producers-- and not yet the first
\* sem_post of its shutdown loop; it owns the mutex.
FanoutNotStarted ==
    \E p \in Producers :
        ppc[p] = "fin_post" /\ shutdown_posts[p] = 0 /\ mutex = ProducerThread(p)

\* C24 (q1_2.c): whenever no producer is active, the buffer is empty and a
\* consumer has not exited, full_slots >= 1, or some consumer holds a permit
\* it has not re-posted yet, or the last producer stands between its
\* decrement of active_producers and the first post of its shutdown loop.
C24_WakeupSufficient ==
    ShutdownPending =>
        (full_slots >= 1 \/ PermitHolders # {} \/ FanoutNotStarted)

\* Two consumers are still running, every producer has returned, the buffer
\* is empty and full_slots is 0: the only wake-ups left are the permits the
\* two consumers hold, one of them about to re-post.
C24_Witness ==
    /\ ShutdownPending
    /\ \A p \in Producers : ppc[p] = "done"
    /\ Cardinality({c \in Consumers : cpc[c] # "done"}) = 2
    /\ full_slots = 0
    /\ \E c \in Consumers : cpc[c] = "repost"
    /\ \E c \in Consumers : cpc[c] = "lock"


(***************************************************************************)
(* C25: the shutdown of q1_2.c with another number of signals.  In q1_2.c  *)
(* the last producer's loop runs NUM_CONSUMERS times; the variant below is *)
(* the same section with a loop bound K of its own, 1 <= K <= MaxFanout,   *)
(* as in the hard-coded fan-out the design notes describe.  The loop may   *)
(* stop after any iteration from the first on, so the behaviours are those *)
(* of every K at once.  All other steps are the steps of q1_2.c.           *)
(***************************************************************************)

\* for (int i = 0; i < K; i++) sem_post(&full_slots);   (one iteration)
producer_fin_post_AnyFanout(p) ==
    /\ program = "q1_2"
    /\ ppc[p] = "fin_post"
    /\ full_slots' = full_slots + 1
    /\ p_k' = [p_k EXCEPT ![p] = p_k[p] + 1]
    /\ shutdown_posts' = [shutdown_posts EXCEPT ![p] = shutdown_posts[p] + 1]
    /\ \E K \in 1..MaxFanout :
         /\ p_k[p] < K
         /\ ppc' = [ppc EXCEPT ![p] =
                      IF p_k[p] + 1 < K THEN "fin_post" ELSE "fin_unlock"]
    /\ UNCHANGED <<cfgVars, leibVars, bufVars, mutex, empty_slots,
                   active_producers, cond_waiters, p_i, cpc, sales_processed,
                   items_consumed, c_k, mpc, m_k, slot_tag, unread, slot_seq,
                   n_put, n_take, put_count, take_count, last_take, reposts,
                   dec_result, last_batch, batch_total>>

producer_AnyFanout(p) ==
    \/ q12_producer_sem_wait(p)
    \/ q12_producer_lock(p)
    \/ q12_producer_insert(p, rand_sale_value(p, p_i[p] + 1))
    \/ q12_producer_unlock(p)
    \/ q12_producer_sem_post(p)
    \/ q12_producer_fin_lock(p)
    \/ q12_producer_fin_dec(p)
    \/ producer_fin_post_AnyFanout(p)
    \/ q12_producer_fin_unlock(p)

NextC25 ==
    \/ \E p \in Producers : q12_producer_sem_wait(p)
    \/ \E p \in Producers : q12_producer_lock(p)
    \/ \E p \in Producers : q12_producer_insert(p, rand_sale_value(p, p_i[p] + 1))
    \/ \E p \in Producers : q12_producer_unlock(p)
    \/ \E p \in Producers : q12_producer_sem_post(p)
    \/ \E p \in Producers : q12_producer_fin_lock(p)
    \/ \E p \in Producers : q12_producer_fin_dec(p)
    \/ \E p \in Producers : producer_fin_post_AnyFanout(p)
    \/ \E p \in Producers : q12_producer_fin_unlock(p)
    \/ \E c \in Consumers : q12_consumer_sem_wait(c)
    \/ \E c \in Consumers : q12_consumer_lock(c)
    \/ \E c \in Consumers : q12_consumer_check(c)
    \/ \E c \in Consumers : q12_consumer_remove(c)
    \/ \E c \in Consumers : q12_consumer_unlock(c)
    \/ \E c \in Consumers : q12_consumer_sem_post(c)
    \/ \E c \in Consumers : q12_consumer_exit_unlock(c)
    \/ \E c \in Consumers : q12_consumer_repost(c)
    \/ q12_main_join_producers
    \/ q12_main_post
    \/ q12_main_join_consumers

SpecC25 == InitQ12 /\ [][NextC25]_vars

\* Producers and consumers are scheduled fairly (weak fairness per thread).
\* main has no fairness: it may make all, some or none of its posts, so the
\* behaviours in which main's loop is left out are among those checked.
FairSpecC25 ==
    /\ SpecC25
    /\ \A p \in 1..MaxThreads : WF_vars(p \in Producers /\ producer_AnyFanout(p))
    /\ \A c \in 1..MaxThreads : WF_vars(c \in Consumers /\ q12_consumer(c))

\* The signals the last producer has posted in its shutdown loop.
ProducerFanout == SumTo(shutdown_posts, NUM_PRODUCERS)

\* C25 (q1_2.c): the consumers' termination does not depend on the number of
\* shutdown signals.  Whatever number K >= 1 of signals the last producer
\* posts, fewer than NUM_CONSUMERS included, and whether or not main ever
\* makes its own posts, every consumer eventually returns, having processed
\* between them every sale.
C25_AnyFanoutTerminates ==
    <>[](AllConsumersDone /\ n_take = SumTo(num_sales, NUM_PRODUCERS))

\* Three consumers have all returned on a single signal of the last producer
\* (K = 1), before main has posted anything.
C25_Witness ==
    /\ program = "q1_2"
    /\ NUM_CONSUMERS = 3
    /\ AllProducersDone
    /\ AllConsumersDone
    /\ ProducerFanout = 1
    /\ MainPosts = 0
    /\ full_slots = 1


\* The number of items the producers of this configuration produce.
TotalItems == SumTo(num_sales, NUM_PRODUCERS)

\* The buffer and the slot semaphore as they are left when all work is done.
Drained ==
    /\ count = 0
    /\ in_idx = TotalItems % BUFFER_SIZE
    /\ out_idx = TotalItems % BUFFER_SIZE
    /\ empty_slots = BUFFER_SIZE

\* C27 as stated: whenever every producer and every consumer of q1_2.c has
\* terminated, the buffer is drained and full_slots is 2 * NUM_CONSUMERS.
C27_WhenThreadsDone ==
    (program = "q1_2" /\ AllProducersDone /\ AllConsumersDone) =>
        (Drained /\ full_slots = 2 * NUM_CONSUMERS)

\* C27 (q1_2.c): whenever every producer and every consumer has terminated,
\* the buffer is drained and full_slots is NUM_CONSUMERS plus the signals
\* main has posted so far; once main has finished its shutdown loop and
\* joined the consumers that is 2 * NUM_CONSUMERS.
C27_FinalState ==
    (program = "q1_2" /\ AllProducersDone /\ AllConsumersDone) =>
        /\ Drained
        /\ full_slots = NUM_CONSUMERS + MainPosts
        /\ mpc = "done" => full_slots = 2 * NUM_CONSUMERS

\* main has returned after one item went through a buffer of two slots and
\* three consumers exited.
C27_Witness ==
    /\ program = "q1_2"
    /\ mpc = "done"
    /\ AllProducersDone /\ AllConsumersDone
    /\ BUFFER_SIZE = 2 /\ TotalItems = 1 /\ NUM_CONSUMERS = 3
    /\ in_idx = 1 /\ out_idx = 1
    /\ full_slots = 6


(***************************************************************************)
(* calc-leibniz.c: NUM_THREADS threads add the elements of array[SIZE]     *)
(* into result.  The worker's locals first, acc and i are held in          *)
(* first_therm, pi_approximation and t_k.                                  *)
(***************************************************************************)
\* for (int i = 0; i < SIZE; i++) array[i] = i;
array == [x \in 0..(SIZE - 1) |-> x]

InitCalc ==
    /\ program = "calc_leibniz"
    /\ InitLeibniz

\* args[i] = i * (SIZE / NUM_THREADS);
\* pthread_create(&thread[i], NULL, &calcular, (void *) &args[i]);
calc_main_create ==
    /\ program = "calc_leibniz"
    /\ mpc = "create"
    /\ first_therm' = [first_therm EXCEPT ![m_k + 1] = m_k * (SIZE \div NUM_THREADS)]
    /\ tpc' = [tpc EXCEPT ![m_k + 1] = "start"]
    /\ mpc' = MainLoopNext(NUM_THREADS, "create", "join")
    /\ m_k' = MainIndexNext(NUM_THREADS)
    /\ UNCHANGED <<program, prodConsVars, mutex, SIZE, NUM_THREADS, result,
                   num_terms, t_k, signal, pi_approximation, sum, reg,
                   denominator, evaluated, int_overflow>>

\* pthread_join(thread[i], NULL);
calc_main_join ==
    /\ program = "calc_leibniz"
    /\ mpc = "join"
    /\ tpc[m_k + 1] = "done"
    /\ mpc' = MainLoopNext(NUM_THREADS, "join", "print")
    /\ m_k' = MainIndexNext(NUM_THREADS)
    /\ UNCHANGED <<program, prodConsVars, mutex, leibVars>>

\* pthread_mutex_destroy(&mutex); printf(...); return EXIT_SUCCESS;
calc_main_print ==
    /\ program = "calc_leibniz"
    /\ mpc = "print"
    /\ mpc' = "done"
    /\ UNCHANGED <<program, prodConsVars, mutex, m_k, leibVars>>

\* unsigned long first = *((unsigned long*) args); unsigned long acc = 0;
\* unsigned long i = first;
calcular_start(t) ==
    /\ program = "calc_leibniz"
    /\ tpc[t] = "start"
    /\ pi_approximation' = [pi_approximation EXCEPT ![t] = 0]
    /\ t_k' = [t_k EXCEPT ![t] = first_therm[t]]
    /\ tpc' = [tpc EXCEPT ![t] = "loop"]
    /\ UNCHANGED <<program, prodConsVars, mutex, mpc, m_k, SIZE, NUM_THREADS,
                   result, first_therm, num_terms, signal, sum, reg,
                   denominator, evaluated, int_overflow>>

\* for (...; i < SIZE; i += NUM_THREADS) acc += array[i];   one iteration,
\* or the exit of the loop.
calcular_loop(t) ==
    /\ program = "calc_leibniz"
    /\ tpc[t] = "loop"
    /\ IF t_k[t] < SIZE
       THEN /\ pi_approximation' = [pi_approximation EXCEPT ![t] = @ + array[t_k[t]]]
            /\ evaluated' = [evaluated EXCEPT ![t_k[t]] = @ + 1]
            /\ t_k' = [t_k EXCEPT ![t] = t_k[t] + NUM_THREADS]
            /\ UNCHANGED tpc
       ELSE /\ tpc' = [tpc EXCEPT ![t] = "lock"]
            /\ UNCHANGED <<pi_approximation, evaluated, t_k>>
    /\ UNCHANGED <<program, prodConsVars, mutex, mpc, m_k, SIZE, NUM_THREADS,
                   result, first_therm, num_terms, signal, sum, reg,
                   denominator, int_overflow>>

\* pthread_mutex_lock(&mutex);
calcular_lock(t) ==
    /\ program = "calc_leibniz"
    /\ tpc[t] = "lock"
    /\ mutex = NoThread
    /\ mutex' = WorkerThread(t)
    /\ tpc' = [tpc EXCEPT ![t] = "load"]
    /\ UNCHANGED <<program, prodConsVars, mpc, m_k, SIZE, NUM_THREADS, result,
                   first_therm, num_terms, t_k, signal, pi_approximation, sum,
                   reg, denominator, evaluated, int_overflow>>

\* result += acc;  the read of result ...
calcular_load(t) ==
    /\ program = "calc_leibniz"
    /\ tpc[t] = "load"
    /\ reg' = [reg EXCEPT ![t] = result]
    /\ tpc' = [tpc EXCEPT ![t] = "store"]
    /\ UNCHANGED <<program, prodConsVars, mutex, mpc, m_k, SIZE, NUM_THREADS,
                   result, first_therm, num_terms, t_k, signal,
                   pi_approximation, sum, denominator, evaluated, int_overflow>>

\* ... and the write of result + acc.
calcular_store(t) ==
    /\ program = "calc_leibniz"
    /\ tpc[t] = "store"
    /\ result' = reg[t] + pi_approximation[t]
    /\ tpc' = [tpc EXCEPT ![t] = "unlock"]
    /\ UNCHANGED <<program, prodConsVars, mutex, mpc, m_k, SIZE, NUM_THREADS,
                   first_therm, num_terms, t_k, signal, pi_approximation, sum,
                   reg, denominator, evaluated, int_overflow>>

\* pthread_mutex_unlock(&mutex);  and the end of calcular
calcular_unlock(t) ==
    /\ program = "calc_leibniz"
    /\ tpc[t] = "unlock"
    /\ mutex' = NoThread
    /\ tpc' = [tpc EXCEPT ![t] = "done"]
    /\ UNCHANGED <<program, prodConsVars, mpc, m_k, SIZE, NUM_THREADS, result,
                   first_therm, num_terms, t_k, signal, pi_approximation, sum,
                   reg, denominator, evaluated, int_overflow>>

calcular(t) ==
    \/ calcular_start(t)
    \/ calcular_loop(t)
    \/ calcular_lock(t)
    \/ calcular_load(t)
    \/ calcular_store(t)
    \/ calcular_unlock(t)

calc_main ==
    \/ calc_main_create
    \/ calc_main_join
    \/ calc_main_print

NextCalc ==
    \/ calc_main
    \/ \E t \in Workers : calcular(t)

SpecCalc == InitCalc /\ [][NextCalc]_vars

\* The sum of array[0..n-1].
RECURSIVE ArraySum(_)
ArraySum(n) == IF n = 0 THEN 0 ELSE ArraySum(n - 1) + array[n - 1]

\* C26 (calc-leibniz.c): once every thread has returned, every index of
\* 0..SIZE-1 has been added into an accumulator exactly once and result is
\* the sum of all array elements.
C26_Partition ==
    (program = "calc_leibniz" /\ \A t \in Workers : tpc[t] = "done") =>
        /\ \A x \in 0..(SIZE - 1) : evaluated[x] = 1
        /\ result = ArraySum(SIZE)

\* SIZE 4, NUM_THREADS 2, both threads returned: thread 0 (first = 0) added
\* indices 0 and 2, thread 1 (first = 2) added index 2 again, indices 1 and
\* 3 were added by nobody, and result is 4 where the array sums to 6.
C26_Overlap ==
    /\ program = "calc_leibniz"
    /\ SIZE = 4 /\ NUM_THREADS = 2
    /\ \A t \in Workers : tpc[t] = "done"
    /\ first_therm = <<0, 2>>
    /\ evaluated = [x \in 0..3 |-> IF x = 0 THEN 1 ELSE IF x = 2 THEN 2 ELSE 0]
    /\ result = 4
    /\ ArraySum(SIZE) = 6


(***************************************************************************)
(* q2_1.c with the values it is compiled with: SIZE 2000000000 and two     *)
(* workers.  A worker's loop runs PARTIAL_NUM_TERMS iterations; the        *)
(* iterations between selected values of k are taken in one step, which    *)
(* adds up their terms.  q2_2.c has the same statements with 8 workers.    *)
(***************************************************************************)
SIZE_q2 == 2000000000
NUM_THREADS_q2_1 == 2

InitC28 ==
    /\ program = "q2"
    /\ SIZE = SIZE_q2
    /\ NUM_THREADS = NUM_THREADS_q2_1
    /\ NoProdCons
    /\ mutex = NoThread
    /\ mpc = "create"
    /\ m_k = 0
    /\ result = 0
    /\ tpc = [t \in 1..NUM_THREADS |-> "new"]
    /\ first_therm = [t \in 1..NUM_THREADS |-> 0]
    /\ num_terms = [t \in 1..NUM_THREADS |-> 0]
    /\ t_k = [t \in 1..NUM_THREADS |-> 0]
    /\ signal = [t \in 1..NUM_THREADS |-> 0]
    /\ pi_approximation = [t \in 1..NUM_THREADS |-> 0]
    /\ sum = [t \in 1..NUM_THREADS |-> 0]
    /\ reg = [t \in 1..NUM_THREADS |-> 0]
    /\ denominator = [t \in 1..NUM_THREADS |-> [wide |-> FALSE, int32 |-> 0]]
    /\ evaluated = << >>
    /\ int_overflow = FALSE

\* The largest k whose 2 * k + 1 is an int.
LastSafeK == INT_MAX \div 2

\* The values of k at which worker t's loop is looked at next.
SamplePoints(t) ==
    {k \in {first_therm[t] + 1, first_therm[t] + PARTIAL_NUM_TERMS \div 2,
            LastSafeK, LastSafeK + 1, num_terms[t] - 1} :
        t_k[t] < k /\ k < num_terms[t]}

\* The terms signal / (2 * k + 1) of the iterations k .. k2 - 1, added up;
\* beyond the first ones every term is 0 at the model's resolution.
RECURSIVE TermsSum(_, _, _)
TermsSum(k, k2, sig) ==
    IF k >= k2 \/ k >= 30 THEN 0
    ELSE LeibnizTerm(sig, 2 * k + 1) + TermsSum(k + 1, k2, -sig)

\* The iterations k = t_k .. k2 - 1 of the for loop, in one step.
q2_worker_loop_many(t) ==
    /\ program = "q2"
    /\ tpc[t] = "loop"
    /\ \E k2 \in SamplePoints(t) :
          /\ t_k' = [t_k EXCEPT ![t] = k2]
          /\ pi_approximation' =
               [pi_approximation EXCEPT ![t] = @ + TermsSum(t_k[t], k2, signal[t])]
          /\ signal' = [signal EXCEPT ![t] =
                          IF (k2 - t_k[t]) % 2 = 0 THEN signal[t] ELSE -signal[t]]
          /\ int_overflow' = (int_overflow \/ k2 - 1 > LastSafeK)
          /\ \E den \in TwoKPlusOne(k2 - 1) :
                denominator' = [denominator EXCEPT ![t] = den]
    /\ UNCHANGED <<program, prodConsVars, mutex, mpc, m_k, SIZE, NUM_THREADS,
                   result, tpc, first_therm, num_terms, sum, reg, evaluated>>

\* Worker t's loop stands at one of the selected values of k, or at its end.
AtSample(t) ==
    t_k[t] \in {first_therm[t], LastSafeK, LastSafeK + 1, num_terms[t] - 1,
                num_terms[t]}

\* partialFormula's loop by selected iterations, then the rest of
\* partialProcessing.
q2_worker_sampled(t) ==
    \/ q2_worker_start(t)
    \/ q2_worker_loop_many(t)
    \/ AtSample(t) /\ q2_worker_loop(t)
    \/ q2_worker_lock(t)
    \/ q2_worker_load(t)
    \/ q2_worker_store(t)
    \/ q2_worker_unlock(t)

NextC28 ==
    \/ q2_main
    \/ \E t \in Workers : q2_worker_sampled(t)

SpecC28 == InitC28 /\ [][NextC28]_vars

\* C28 (q2_1.c as compiled, SIZE = 2000000000; q2_2.c has the same
\* expressions): no int expression of main or of a worker leaves the signed
\* 32-bit range, and every denominator a worker has evaluated is the
\* positive int 2k+1.
C28_NoOverflow ==
    program = "q2" =>
        /\ ~int_overflow
        /\ \A t \in Workers :
              (tpc[t] = "loop" /\ t_k[t] > first_therm[t]) =>
                  /\ ~denominator[t].wide
                  /\ denominator[t].int32 > 0

\* q2_1.c: the second of the two workers has evaluated 2 * k + 1 for
\* k = 1073741824 as the int -2147483647; i * PARTIAL_NUM_TERMS and
\* start_term + PARTIAL_NUM_TERMS were within range.
C28_NegativeDenominator ==
    /\ program = "q2"
    /\ SIZE = SIZE_q2
    /\ NUM_THREADS = NUM_THREADS_q2_1
    /\ first_therm[2] = 1000000000
    /\ num_terms[2] = 2000000000
    /\ tpc[2] = "loop"
    /\ t_k[2] = LastSafeK + 2
    /\ denominator[2] = [wide |-> FALSE, int32 |-> -INT_MAX]
    /\ int_overflow

=============================================================================
